---- MODULE Spec2Model ----
\* Verification model of the FIX toolkit:
\*   - the market-data validator's order book (type Orders) and its handlers,
\*   - the FIX<->FIX bridge (type Bridge).
\* Three specifications share the variables:
\*   SpecOrders  the book driven directly through AddOrder/UpdateOrder/DeleteOrder,
\*   Spec        the validator application driven by session callbacks and messages,
\*   SpecBridge  the bridge driven by session callbacks and messages.
EXTENDS Integers, Sequences, FiniteSets, TLC

----------------------------------------------------------------------------
\* Bounds of the model.

\* number of distinct order ids the feed uses
NumOrderIds == 2
\* prices range over -1 .. MaxPrice (decimal.Decimal is signed, and zero is a price)
MaxPrice == 2
\* number of entries a market-data message carries at most
MaxEntries == 1
\* cap of the counters crossed_updates_total and errors_total, summed: the validator
\* takes messages only while they are below it
MaxCount == 2
\* cap of the distance between the volume counters and the orders they count:
\* a call whose type or side differs from the stored order's moves them apart
\* without bound, so the book takes calls only while the distance is below the cap
MaxDrift == 1
\* client (FIXT.1.1) sessions and exchange (FIX.4.2 / FIX.4.4) sessions of the bridge
NumClients == 2
NumExchanges == 2
\* ClOrdID values the clients use
NumClOrdIDs == 2
\* the longest connectedExchanges list explored
MaxConnected == 3
MaxListed == 2
MaxRunning == 2

----------------------------------------------------------------------------
\* Values of the quickfix enums the code compares against.

MDEntryType_BID == "0"
MDEntryType_OFFER == "1"
MDEntryType_TRADE == "2"
OrdType_MARKET == "1"
OrdType_LIMIT == "2"
MDUpdateAction_NEW == "0"
MDUpdateAction_CHANGE == "1"
MDUpdateAction_DELETE == "2"

ErrOrderAlreadyExists == "order already exists"
ErrOrderNotFound == "order not found"
ErrSomethingWrong == "something wrong happened"
\* the nil error
NoErr == "nil"

\* the nil *Order
NilOrder == [IsNil |-> TRUE]

\* Order{} : the zero value of the struct
ZeroOrder ==
    [Id |-> "", Size |-> 0, RemainingSize |-> 0, Type |-> "", Side |-> "", Price |-> 0]

AllOrderIds == <<"o1", "o2", "o3", "o4">>
OrderIds == {AllOrderIds[i] : i \in 1..NumOrderIds}
Prices == (0 - 1)..MaxPrice
MDEntrySizes == {10}
OrdTypes == {OrdType_MARKET, OrdType_LIMIT}
Sides == {MDEntryType_BID, MDEntryType_OFFER}

\* type Order struct
Order ==
    [Id : OrderIds, Size : MDEntrySizes, RemainingSize : MDEntrySizes,
     Type : OrdTypes, Side : Sides, Price : Prices]

----------------------------------------------------------------------------
\* Go maps as functions over the set of keys present.

EmptyMap == [k \in {} |-> 0]

\* the value read for a key, 0 when the key is absent
MapGet(m, k) == IF k \in DOMAIN m THEN m[k] ELSE 0

MapSet(m, k, v) == [x \in (DOMAIN m) \cup {k} |-> IF x = k THEN v ELSE m[x]]

RECURSIVE MapSum(_)
MapSum(m) ==
    IF DOMAIN m = {} THEN 0
    ELSE LET k == CHOOSE x \in DOMAIN m : TRUE
         IN m[k] + MapSum([x \in (DOMAIN m) \ {k} |-> m[x]])

----------------------------------------------------------------------------
\* type Orders: the per-security order book.

\* the &Orders{...} literal built by createSecurityList
NewOrders ==
    [orders |-> <<>>, typesVolume |-> EmptyMap, sidesVolume |-> EmptyMap,
     bestBuyOrder |-> ZeroOrder, bestSellOrder |-> ZeroOrder, isCrossed |-> FALSE]

\* Orders.getOrder: index of the first order with this id, 0 for ErrOrderNotFound
getOrder(o, id) ==
    IF \E i \in 1..Len(o.orders) : o.orders[i].Id = id
    THEN CHOOSE i \in 1..Len(o.orders) :
            /\ o.orders[i].Id = id
            /\ \A j \in 1..(i - 1) : o.orders[j].Id # id
    ELSE 0

\* Orders.fillBestOrder
fillBestOrder(o, order) ==
    IF order.Side = MDEntryType_BID
    THEN IF o.bestBuyOrder = NilOrder \/ order.Price > o.bestBuyOrder.Price
         THEN [o EXCEPT !.bestBuyOrder = order]
         ELSE o
    ELSE IF o.bestSellOrder = NilOrder \/ order.Price < o.bestSellOrder.Price
         THEN [o EXCEPT !.bestSellOrder = order]
         ELSE o

\* Orders.getOrdersBySide
getOrdersBySide(o, side) == SelectSeq(o.orders, LAMBDA x : x.Side = side)

\* the loop under the UPDATE_BEST_ORDER label
RECURSIVE fillBestOrders(_, _)
fillBestOrders(o, clo) ==
    IF clo = <<>> THEN o
    ELSE fillBestOrders(fillBestOrder(o, Head(clo)), Tail(clo))

\* Orders.updateBestPrice
updateBestPrice(o, order, action) ==
    IF \/ (order.Side = MDEntryType_BID /\ o.bestBuyOrder = NilOrder)
       \/ (order.Side = MDEntryType_OFFER /\ o.bestSellOrder = NilOrder)
    THEN fillBestOrders(o, getOrdersBySide(o, order.Side))
    ELSE IF action = MDUpdateAction_CHANGE
    THEN fillBestOrder(o, order)
    ELSE IF action = MDUpdateAction_DELETE
    THEN IF order.Side = MDEntryType_BID /\ order.Id = o.bestBuyOrder.Id
         THEN LET o1 == [o EXCEPT !.bestBuyOrder = ZeroOrder]
              IN fillBestOrders(o1, getOrdersBySide(o1, order.Side))
         ELSE IF order.Side = MDEntryType_OFFER /\ order.Id = o.bestSellOrder.Id
         THEN LET o1 == [o EXCEPT !.bestSellOrder = ZeroOrder]
              IN fillBestOrders(o1, getOrdersBySide(o1, order.Side))
         ELSE o
    ELSE fillBestOrders(o, getOrdersBySide(o, order.Side))

\* AddOrder without the lookup that refuses an id already in the book
AddOrderUnchecked(o, order) ==
    LET o1 == [o EXCEPT !.orders = Append(o.orders, order)]
        o2 == [o1 EXCEPT !.typesVolume =
                   MapSet(o1.typesVolume, order.Type, MapGet(o1.typesVolume, order.Type) + 1)]
        o3 == [o2 EXCEPT !.sidesVolume =
                   MapSet(o2.sidesVolume, order.Side, MapGet(o2.sidesVolume, order.Side) + 1)]
    IN [o |-> fillBestOrder(o3, order), err |-> NoErr]

\* Orders.AddOrder: the book afterwards and the error returned
AddOrder(o, order) ==
    IF getOrder(o, order.Id) # 0
    THEN [o |-> o, err |-> ErrOrderAlreadyExists]
    ELSE LET o1 == [o EXCEPT !.orders = Append(o.orders, order)]
             o2 == [o1 EXCEPT !.typesVolume =
                        IF order.Type \in DOMAIN o1.typesVolume
                        THEN MapSet(o1.typesVolume, order.Type, o1.typesVolume[order.Type] + 1)
                        ELSE MapSet(o1.typesVolume, order.Type, 1)]
             o3 == [o2 EXCEPT !.sidesVolume =
                        IF order.Side \in DOMAIN o2.sidesVolume
                        THEN MapSet(o2.sidesVolume, order.Side, o2.sidesVolume[order.Side] + 1)
                        ELSE MapSet(o2.sidesVolume, order.Side, 1)]
         IN [o |-> fillBestOrder(o3, order), err |-> NoErr]

\* DeleteOrder that drops the error of getOrder and goes on with the index it
\* returned with it, the first of the book
DeleteOrderIgnoringErr(o, order) ==
    LET g == getOrder(o, order.Id)
        i == IF g = 0 THEN 1 ELSE g
        o1 == [o EXCEPT !.orders =
                  SubSeq(o.orders, 1, i - 1) \o SubSeq(o.orders, i + 1, Len(o.orders))]
    IN IF order.Type \notin DOMAIN o1.typesVolume
       THEN [o |-> o1, err |-> ErrSomethingWrong]
       ELSE LET o2 == [o1 EXCEPT !.typesVolume[order.Type] = @ - 1]
            IN IF order.Side \notin DOMAIN o2.sidesVolume
               THEN [o |-> o2, err |-> ErrSomethingWrong]
               ELSE LET o3 == [o2 EXCEPT !.sidesVolume[order.Side] = @ - 1]
                    IN [o |-> updateBestPrice(o3, order, MDUpdateAction_DELETE),
                        err |-> NoErr]

\* Orders.DeleteOrder: the book afterwards and the error returned
DeleteOrder(o, order) ==
    LET i == getOrder(o, order.Id)
    IN IF i = 0
       THEN [o |-> o, err |-> ErrOrderNotFound]
       ELSE LET o1 == [o EXCEPT !.orders =
                          SubSeq(o.orders, 1, i - 1) \o SubSeq(o.orders, i + 1, Len(o.orders))]
            IN IF order.Type \notin DOMAIN o1.typesVolume
               THEN [o |-> o1, err |-> ErrSomethingWrong]
               ELSE LET o2 == [o1 EXCEPT !.typesVolume[order.Type] = @ - 1]
                    IN IF order.Side \notin DOMAIN o2.sidesVolume
                       THEN [o |-> o2, err |-> ErrSomethingWrong]
                       ELSE LET o3 == [o2 EXCEPT !.sidesVolume[order.Side] = @ - 1]
                            IN [o |-> updateBestPrice(o3, order, MDUpdateAction_DELETE),
                                err |-> NoErr]

\* Orders.UpdateOrder: the book afterwards and the error returned
UpdateOrder(o, order) ==
    LET i == getOrder(o, order.Id)
    IN IF i = 0
       THEN [o |-> o, err |-> ErrOrderNotFound]
       ELSE LET o1 == [o EXCEPT !.orders[i] = order]
            IN [o |-> updateBestPrice(o1, order, MDUpdateAction_CHANGE), err |-> NoErr]

\* Orders.isOrderBookCrossed: the value returned, the book afterwards (isCrossed) and
\* what it does to the metrics: crossed_updates_total Add(1), book_crossed Set(v)
isOrderBookCrossed(o) ==
    IF /\ o.bestBuyOrder # NilOrder
       /\ o.bestBuyOrder.Price # 0
       /\ o.bestSellOrder # NilOrder
       /\ o.bestSellOrder.Price # 0
       /\ o.bestBuyOrder.Price >= o.bestSellOrder.Price
    THEN IF ~o.isCrossed
         THEN [ret |-> TRUE, o |-> [o EXCEPT !.isCrossed = TRUE],
               addCrossedUpdates |-> 1, setBookCrossed |-> <<1>>]
         ELSE [ret |-> TRUE, o |-> o, addCrossedUpdates |-> 0, setBookCrossed |-> <<>>]
    ELSE IF o.isCrossed
         THEN [ret |-> FALSE, o |-> [o EXCEPT !.isCrossed = FALSE],
               addCrossedUpdates |-> 0, setBookCrossed |-> <<0>>]
         ELSE [ret |-> FALSE, o |-> o, addCrossedUpdates |-> 0, setBookCrossed |-> <<>>]

\* createSecurityList: one fresh book per security
createSecurityList(securities) == [s \in securities |-> NewOrders]

----------------------------------------------------------------------------
\* The distance between a book's volume counters and the orders it holds.

Abs(n) == IF n < 0 THEN 0 - n ELSE n

CountType(o, t) == Cardinality({i \in 1..Len(o.orders) : o.orders[i].Type = t})

CountSide(o, sd) == Cardinality({i \in 1..Len(o.orders) : o.orders[i].Side = sd})

\* how far the counters are from the orders in the book
Drift(o) ==
    Abs(MapGet(o.typesVolume, OrdType_MARKET) - CountType(o, OrdType_MARKET))
    + Abs(MapGet(o.typesVolume, OrdType_LIMIT) - CountType(o, OrdType_LIMIT))
    + Abs(MapGet(o.sidesVolume, MDEntryType_BID) - CountSide(o, MDEntryType_BID))
    + Abs(MapGet(o.sidesVolume, MDEntryType_OFFER) - CountSide(o, MDEntryType_OFFER))

VolumesInRange(o) == Drift(o) < MaxDrift

----------------------------------------------------------------------------
\* The validator: metrics and the market-data handlers, as functions of the
\* validator's state v = [secList, crossedUpdates, bookCrossed, errors].
\* Of the metric vectors, crossed_updates_total, book_crossed and errors_total are
\* state of the model; the other vectors (incremental_refreshes_total,
\* order_updates_total, trade_updates_total, orders, fix_connection) are written
\* by the handlers and read by nothing, and are left out.

\* a string field that the message or entry does not carry
NoField == "<absent>"

\* a decimal field or a repeating group is a sequence of one value, or NoValue when
\* the message or entry does not carry it
NoValue == <<>>

\* counter.Add(n) on the series of one label value
CounterAdd(m, k, n) == MapSet(m, k, MapGet(m, k) + n)

\* errors_total{security, error}.Add(n)
ErrorsAdd(errors, security, err, n) ==
    MapSet(errors, security,
           CounterAdd(IF security \in DOMAIN errors THEN errors[security] ELSE EmptyMap, err, n))

\* cleanSecurityMetrics
cleanSecurityMetrics(v, security) ==
    [v EXCEPT !.errors = ErrorsAdd(ErrorsAdd(v.errors, security, ErrOrderNotFound, 0),
                                   security, ErrOrderAlreadyExists, 0),
              !.crossedUpdates = CounterAdd(v.crossedUpdates, security, 0)]

\* the call orders.isOrderBookCrossed(security) that ends both handlers
CheckCrossed(v, security) ==
    LET c == isOrderBookCrossed(v.secList[security])
    IN [v EXCEPT !.secList[security] = c.o,
                 !.crossedUpdates = CounterAdd(v.crossedUpdates, security, c.addCrossedUpdates),
                 !.bookCrossed = IF c.setBookCrossed = <<>> THEN v.bookCrossed
                                 ELSE MapSet(v.bookCrossed, security, c.setBookCrossed[1])]

\* a book call made by a handler: the book is replaced, a failure is counted
BookCall(v, security, r) ==
    [v EXCEPT !.secList[security] = r.o,
              !.errors = IF r.err = NoErr THEN v.errors
                         ELSE ErrorsAdd(v.errors, security, r.err, 1)]

\* one iteration of the loop of onMarketDataSnapshotFullRefresh
SnapshotEntry(v, security, mdentry) ==
    IF mdentry.MDEntryType = NoField THEN v
    ELSE IF mdentry.MDEntryType \in {MDEntryType_BID, MDEntryType_OFFER}
    THEN IF mdentry.OrderID = NoField THEN v
         ELSE IF mdentry.OrdType = NoField THEN v
         ELSE LET order == [Id |-> mdentry.OrderID,
                            Size |-> mdentry.MDEntrySize,
                            RemainingSize |-> mdentry.MDEntrySize,
                            Type |-> mdentry.OrdType,
                            Side |-> mdentry.MDEntryType,
                            Price |-> 0]
              IN BookCall(v, security, AddOrder(v.secList[security], order))
    ELSE v

RECURSIVE SnapshotEntries(_, _, _)
SnapshotEntries(v, security, mdentries) ==
    IF mdentries = <<>> THEN v
    ELSE SnapshotEntries(SnapshotEntry(v, security, Head(mdentries)), security, Tail(mdentries))

\* MarketDataValidator.onMarketDataSnapshotFullRefresh: the state afterwards and the
\* reject returned (NoErr for nil)
onMarketDataSnapshotFullRefresh(v, msg) ==
    IF msg.Symbol = NoField
    THEN [v |-> v, reject |-> "NoSymbol"]
    ELSE IF msg.Symbol \notin DOMAIN v.secList
    THEN [v |-> v, reject |-> "symbol not found internally"]
    ELSE IF msg.NoMDEntries = NoValue
    THEN [v |-> v, reject |-> "NoMDEntries"]
    ELSE [v |-> CheckCrossed(SnapshotEntries(v, msg.Symbol, msg.NoMDEntries[1]), msg.Symbol),
          reject |-> NoErr]

\* one iteration of the loop of onMarketDataIncrementalRefresh
IncrementalEntry(v, security, mdentry) ==
    IF mdentry.MDEntryType = NoField THEN v
    ELSE IF mdentry.MDEntryType \in {MDEntryType_BID, MDEntryType_OFFER}
    THEN IF mdentry.OrderID = NoField THEN v
         ELSE IF mdentry.OrdType = NoField THEN v
         ELSE IF mdentry.MDEntryPx = NoValue THEN v
         ELSE LET order == [Id |-> mdentry.OrderID,
                            Size |-> mdentry.MDEntrySize,
                            RemainingSize |-> mdentry.MDEntrySize,
                            Type |-> mdentry.OrdType,
                            Side |-> mdentry.MDEntryType,
                            Price |-> mdentry.MDEntryPx[1]]
              IN IF mdentry.MDUpdateAction = NoField THEN v
                 ELSE IF mdentry.MDUpdateAction = MDUpdateAction_NEW
                 THEN BookCall(v, security, AddOrder(v.secList[security], order))
                 ELSE IF mdentry.MDUpdateAction = MDUpdateAction_CHANGE
                 THEN BookCall(v, security, UpdateOrder(v.secList[security], order))
                 ELSE IF mdentry.MDUpdateAction = MDUpdateAction_DELETE
                 THEN BookCall(v, security, DeleteOrder(v.secList[security], order))
                 ELSE v
    ELSE v

\* the loop of onMarketDataIncrementalRefresh left at the first entry whose book
\* call fails
RECURSIVE IncrementalEntriesUntilError(_, _, _)
IncrementalEntriesUntilError(v, security, mdentries) ==
    IF mdentries = <<>> THEN v
    ELSE LET v1 == IncrementalEntry(v, security, Head(mdentries))
         IN IF v1.errors # v.errors THEN v1
            ELSE IncrementalEntriesUntilError(v1, security, Tail(mdentries))

RECURSIVE IncrementalEntries(_, _, _)
IncrementalEntries(v, security, mdentries) ==
    IF mdentries = <<>> THEN v
    ELSE IncrementalEntries(IncrementalEntry(v, security, Head(mdentries)),
                            security, Tail(mdentries))

\* MarketDataValidator.onMarketDataIncrementalRefresh: the state afterwards and the
\* reject returned (NoErr for nil)
onMarketDataIncrementalRefresh(v, msg) ==
    IF msg.NoMDEntries = NoValue
    THEN [v |-> v, reject |-> "NoMDEntries"]
    ELSE IF Len(msg.NoMDEntries[1]) = 0
    THEN [v |-> v, reject |-> "MDEntries seems empty"]
    ELSE LET security == msg.NoMDEntries[1][1].Symbol
         IN IF security = NoField
            THEN [v |-> v, reject |-> "No security found in MDEntries"]
            ELSE IF security \notin DOMAIN v.secList
            THEN [v |-> v, reject |-> "security not found"]
            ELSE [v |-> CheckCrossed(IncrementalEntries(v, security, msg.NoMDEntries[1]),
                                     security),
                  reject |-> NoErr]

RECURSIVE cleanAll(_, _)
cleanAll(v, securities) ==
    IF securities = {} THEN v
    ELSE LET s == CHOOSE x \in securities : TRUE
         IN cleanAll(cleanSecurityMetrics(v, s), securities \ {s})

\* buildSubscriptionMessage with configured symbols: the books are created anew
buildSubscriptionMessage(v, symbols) ==
    [cleanAll(v, symbols) EXCEPT !.secList = createSecurityList(symbols)]

\* the loop of OnLogout: every security's metrics are cleaned and its book deleted
deleteSecList(v) ==
    [cleanAll(v, DOMAIN v.secList) EXCEPT !.secList = EmptyMap]

----------------------------------------------------------------------------
\* The bridge: its sessions and its handlers, as functions of the bridge's state
\* b = [connectedExchanges, orderMapping].

BeginStringFIX42 == "FIX.4.2"
BeginStringFIX44 == "FIX.4.4"
BeginStringFIXT11 == "FIXT.1.1"

MsgType_ORDER_SINGLE == "D"
MsgType_EXECUTION_REPORT == "8"

AllClients == <<"client1", "client2", "client3">>
AllExchanges == <<"exchange1", "exchange2", "exchange3">>
AllClOrdIDs == <<"c-1", "c-2", "c-3">>

\* sessions of the acceptor side (clients) and of the initiator side (exchanges)
Clients == {AllClients[i] : i \in 1..NumClients}
Exchanges == {AllExchanges[i] : i \in 1..NumExchanges}
ClOrdIDs == {AllClOrdIDs[i] : i \in 1..NumClOrdIDs}

\* SessionID.BeginString of the configured sessions
SessionBeginString(sessionID) ==
    IF sessionID \in Clients THEN BeginStringFIXT11
    ELSE IF sessionID = AllExchanges[2] THEN BeginStringFIX42
    ELSE BeginStringFIX44

\* SessionID.IsFIXT
IsFIXT(sessionID) == SessionBeginString(sessionID) = BeginStringFIXT11

\* the &Bridge{...} built by NewBridge
NewBridge == [connectedExchanges |-> <<>>, orderMapping |-> EmptyMap]

\* Bridge.OnLogon
Bridge_OnLogon(b, sessionID) ==
    IF ~IsFIXT(sessionID)
    THEN [b EXCEPT !.connectedExchanges = Append(b.connectedExchanges, sessionID)]
    ELSE b

\* the loop of Bridge.OnLogout: the first occurrence of the session is cut out
RemoveFirst(list, sessionID) ==
    IF \E i \in 1..Len(list) : list[i] = sessionID
    THEN LET i == CHOOSE k \in 1..Len(list) :
                     /\ list[k] = sessionID
                     /\ \A j \in 1..(k - 1) : list[j] # sessionID
         IN SubSeq(list, 1, i - 1) \o SubSeq(list, i + 1, Len(list))
    ELSE list

\* Bridge.OnLogout: after the loop the session is appended to the list
Bridge_OnLogout(b, sessionID) ==
    IF ~IsFIXT(sessionID)
    THEN [b EXCEPT !.connectedExchanges =
             Append(RemoveFirst(b.connectedExchanges, sessionID), sessionID)]
    ELSE b

\* the message a handler hands to quickfix.SendToTarget
Forwarded(msgType, clOrdId, target, source) ==
    [to |-> target, from |-> source, BeginString |-> SessionBeginString(target),
     MsgType |-> msgType, ClOrdID |-> clOrdId]

\* Bridge.onNewOrderSingleClient: the bridge afterwards, the reject returned (NoErr for
\* nil) and the message sent. copyErr is what utils.QuickFixMessageCopyFields and
\* utils.QuickFixMessageCopyPartyIds return for this order, sendErr what
\* quickfix.SendToTarget returns.
onNewOrderSingleClient(b, order, sessionID, copyErr, sendErr) ==
    IF Len(b.connectedExchanges) = 0
    THEN [b |-> b, reject |-> "No connected exchanges", sent |-> <<>>]
    ELSE LET target == b.connectedExchanges[1]
         IN IF order.ClOrdID = NoField
            THEN [b |-> b, reject |-> "Missing ClOrdID", sent |-> <<>>]
            ELSE LET b1 == [b EXCEPT !.orderMapping =
                                MapSet(b.orderMapping, order.ClOrdID, sessionID)]
                 IN IF copyErr # NoErr
                    THEN [b |-> b1, reject |-> copyErr, sent |-> <<>>]
                    ELSE IF sendErr # NoErr
                    THEN [b |-> b1, reject |-> sendErr, sent |-> <<>>]
                    ELSE [b |-> b1, reject |-> NoErr,
                          sent |-> <<Forwarded(MsgType_ORDER_SINGLE, order.ClOrdID,
                                               target, sessionID)>>]

\* onExecutionReportExchange sending the report to the first client session instead
\* of the one recorded for the ClOrdID
onExecutionReportExchangeToFirstClient(b, msg, sessionID, copyErr, sendErr) ==
    IF msg.ClOrdID = NoField
    THEN [b |-> b, reject |-> "Missing ClOrdID", sent |-> <<>>]
    ELSE IF msg.ClOrdID \notin DOMAIN b.orderMapping
    THEN [b |-> b, reject |-> NoErr, sent |-> <<>>]
    ELSE IF copyErr # NoErr
    THEN [b |-> b, reject |-> copyErr, sent |-> <<>>]
    ELSE IF sendErr # NoErr
    THEN [b |-> b, reject |-> sendErr, sent |-> <<>>]
    ELSE [b |-> b, reject |-> NoErr,
          sent |-> <<Forwarded(MsgType_EXECUTION_REPORT, msg.ClOrdID,
                               AllClients[1], sessionID)>>]

\* Bridge.onExecutionReportExchange: the bridge afterwards, the reject returned and the
\* message sent
onExecutionReportExchange(b, msg, sessionID, copyErr, sendErr) ==
    IF msg.ClOrdID = NoField
    THEN [b |-> b, reject |-> "Missing ClOrdID", sent |-> <<>>]
    ELSE IF msg.ClOrdID \notin DOMAIN b.orderMapping
    THEN [b |-> b, reject |-> NoErr, sent |-> <<>>]
    ELSE LET clientSessionID == b.orderMapping[msg.ClOrdID]
         IN IF copyErr # NoErr
            THEN [b |-> b, reject |-> copyErr, sent |-> <<>>]
            ELSE IF sendErr # NoErr
            THEN [b |-> b, reject |-> sendErr, sent |-> <<>>]
            ELSE [b |-> b, reject |-> NoErr,
                  sent |-> <<Forwarded(MsgType_EXECUTION_REPORT, msg.ClOrdID,
                                       clientSessionID, sessionID)>>]

\* The handlers of the Bridge kept in pkg/utils/quickfix.go pass the inbound message
\* on as it is: the message handed to quickfix.SendToTarget is the source message,
\* with the header it arrived with.
PassedOn(msg, target, source) ==
    [to |-> target, from |-> source, BeginString |-> msg.BeginString,
     MsgType |-> msg.MsgType, ClOrdID |-> msg.ClOrdID]

\* Bridge.forwardClientMessageToExchange
forwardClientMessageToExchange(b, msg, sessionID, sendErr) ==
    IF Len(b.connectedExchanges) = 0
    THEN [b |-> b, reject |-> "No connected exchanges", sent |-> <<>>]
    ELSE LET target == b.connectedExchanges[1]
         IN IF msg.ClOrdID = NoField
            THEN [b |-> b, reject |-> "Missing ClOrdID", sent |-> <<>>]
            ELSE LET b1 == [b EXCEPT !.orderMapping =
                               MapSet(b.orderMapping, msg.ClOrdID, sessionID)]
                 IN IF sendErr # NoErr
                    THEN [b |-> b1, reject |-> sendErr, sent |-> <<>>]
                    ELSE [b |-> b1, reject |-> NoErr,
                          sent |-> <<PassedOn(msg, target, sessionID)>>]

\* Bridge.forwardExchangeMessageToClient
forwardExchangeMessageToClient(b, msg, sessionID, sendErr) ==
    IF msg.ClOrdID = NoField
    THEN [b |-> b, reject |-> "Missing ClOrdID", sent |-> <<>>]
    ELSE IF msg.ClOrdID \notin DOMAIN b.orderMapping
    THEN [b |-> b, reject |-> NoErr, sent |-> <<>>]
    ELSE IF sendErr # NoErr
    THEN [b |-> b, reject |-> sendErr, sent |-> <<>>]
    ELSE [b |-> b, reject |-> NoErr,
          sent |-> <<PassedOn(msg, b.orderMapping[msg.ClOrdID], sessionID)>>]

----------------------------------------------------------------------------
\* State.

VARIABLES
    \* Validator.secList : security -> book (map[string]*Orders)
    secList,
    \* metric crossed_updates_total{security}
    metricCrossedUpdates,
    \* metric book_crossed{security}
    metricBookCrossed,
    \* metric errors_total{security,error}
    metricErrors,
    \* the validator's session is logged on (between OnLogon and OnLogout)
    connected,
    \* the goroutine OnLogon starts to run subscribe has not run yet
    subscribing,
    \* the last operation performed and the error (or reject reason) it returned
    last,
    \* Bridge.connectedExchanges
    connectedExchanges,
    \* Bridge.orderMapping : ClOrdID -> client session
    orderMapping,
    \* the sessions of the bridge that are logged on (the session engine's state)
    loggedOn,
    \* the exchange sessions that are logged on, in the order they logged on
    logonOrder,
    \* the pairs <<ClOrdID, exchange>> of the client orders sent to an exchange so far
    routed,
    \* the message the last handler handed to quickfix.SendToTarget with success:
    \* a sequence of one message, empty when it sent none
    sent,
    \* for each ClOrdID, the client session whose order with that ClOrdID FromApp
    \* handed to onNewOrderSingleClient last
    submitter,
    \* who subscribes to the market data: the command's Execute, or the subscribe
    \* goroutine the application starts in OnLogon
    driver,
    \* where the subscribing thread stands
    subPc,
    \* the symbols given on the command line (the --symbol flag, options.Symbols)
    configuredSymbols,
    \* the command's optionSymbol
    optionSymbol,
    \* the channel SecurityListResponse: the message FromApp is handing over
    SecurityListResponse,
    \* the message the wait for the SecurityList response received, if any
    responseMessage,
    \* the application messages handed to quickfix.Send / SendToTarget with success
    outbox,
    \* for each session of the bridge, where the handler its goroutine runs stands
    handler,
    \* the Go runtime has stopped the bridge (fatal error: concurrent map access)
    crashed,
    \* the request/response command that runs
    command,
    \* where the command's Execute stands
    cmdPc,
    \* the channels of the command's application: whether each is closed, and the
    \* values sent to it that no receive has taken yet
    channels,
    \* the state of the command's session
    session,
    \* the Username and Password settings of the session, NoField for a setting that
    \* is absent
    settings,
    \* the level of the application's logger
    logLevel,
    \* the admin message ToAdmin was called with last, before and after the call
    toAdmin,
    \* the records the application's logger has written for messages
    logRecords,
    \* the message WriteMessageBodyAsTable is called with, and the two dictionaries of
    \* the application
    rendering,
    \* what WriteMessageBodyAsTable has written, NoValue before the call
    table,
    \* the --timeout option and the SocketTimeout of the configuration, in seconds
    timeouts,
    \* the timeout the command waits with, NoValue before it is chosen
    timeout,
    \* the application whose callbacks and Stop run
    app,
    \* the application's ExitOnDisconnect option
    exitOnDisconnect,
    \* the application's stopped flag
    stopped,
    \* where Stop stands
    stopPc,
    \* the callback the session's goroutine runs, and the send it is about to make
    callback,
    \* the runtime panic that ended the process, NoErr when there was none
    panicked

vars ==
    <<secList, metricCrossedUpdates, metricBookCrossed, metricErrors,
      connected, subscribing, last,
      connectedExchanges, orderMapping, loggedOn, logonOrder, routed, sent, submitter,
      driver, subPc, configuredSymbols, optionSymbol, SecurityListResponse,
      responseMessage, outbox, handler, crashed,
      command, cmdPc, channels, session, settings, logLevel, toAdmin, logRecords,
      rendering, table, timeouts, timeout,
      app, exitOnDisconnect, stopped, stopPc, callback, panicked>>

subscriptionVars ==
    <<driver, subPc, configuredSymbols, optionSymbol, SecurityListResponse,
      responseMessage, outbox>>

\* the subscribing thread before it has started
InitSubscription ==
    /\ driver = "subscribe"
    /\ subPc = "waitLogon"
    /\ configuredSymbols = <<>>
    /\ optionSymbol = <<>>
    /\ SecurityListResponse = <<>>
    /\ responseMessage = <<>>
    /\ outbox = <<>>

threadVars == <<handler, crashed>>

\* a session's goroutine that runs no handler
HandlerIdle == [pc |-> "idle", ClOrdID |-> NoField, target |-> <<>>, client |-> <<>>]

\* no handler runs
InitThreads ==
    /\ handler = [s \in Clients \cup Exchanges |-> HandlerIdle]
    /\ crashed = FALSE

utilVars == <<rendering, table, timeouts, timeout>>

\* a dictionary that was not loaded
NoDict == [nil |-> TRUE]

\* no message is rendered, no timeout is chosen
InitUtil ==
    /\ rendering = [message |-> <<>>, TransportDataDictionary |-> NoDict,
                    AppDataDictionary |-> NoDict]
    /\ table = NoValue
    /\ timeouts = [Timeout |-> 0, SocketTimeout |-> 0]
    /\ timeout = NoValue

lifecycleVars == <<app, exitOnDisconnect, stopped, stopPc, callback, panicked>>

\* the session's goroutine runs no callback
CallbackIdle == [pc |-> "idle", chan |-> NoField, then |-> NoField, late |-> FALSE]

\* the channels of the applications
AllChans == {"Connected", "FromAppMessages", "FromAppChan", "FromAdminChan", "AppInfoChan"}

\* no application runs
InitLifecycle ==
    /\ app = "none"
    /\ exitOnDisconnect = FALSE
    /\ stopped = FALSE
    /\ stopPc = "idle"
    /\ callback = CallbackIdle
    /\ panicked = NoErr

commandVars ==
    <<command, cmdPc, channels, session, settings, logLevel, toAdmin, logRecords, utilVars,
      lifecycleVars>>

\* a channel nothing was sent to
ChanOpen == [closed |-> FALSE, queue |-> <<>>]

LevelTrace == "trace"
LevelDebug == "debug"

\* no command runs
InitCommand ==
    /\ command = "none"
    /\ cmdPc = "idle"
    /\ channels = [c \in AllChans |-> ChanOpen]
    /\ session = "created"
    /\ settings = [Username |-> NoField, Password |-> NoField]
    /\ logLevel = LevelDebug
    /\ toAdmin = <<>>
    /\ logRecords = {}
    /\ InitUtil
    /\ InitLifecycle

bridgeVars ==
    <<connectedExchanges, orderMapping, loggedOn, logonOrder, routed, sent, submitter>>

validatorVars ==
    <<secList, metricCrossedUpdates, metricBookCrossed, metricErrors, connected, subscribing>>

\* the bridge as NewBridge leaves it, with no session logged on
InitBridge ==
    /\ connectedExchanges = NewBridge.connectedExchanges
    /\ orderMapping = NewBridge.orderMapping
    /\ loggedOn = {}
    /\ logonOrder = <<>>
    /\ routed = {}
    /\ sent = <<>>
    /\ submitter = EmptyMap

sessionVars == <<connected, subscribing>>

metricVars == <<metricCrossedUpdates, metricBookCrossed, metricErrors>>

----------------------------------------------------------------------------
\* SpecOrders: one book, created by createSecurityList, driven through its
\* exported methods with the orders the handlers can build from a market-data entry.

BookSecurity == "ABC"

Book == secList[BookSecurity]

InitOrders ==
    /\ secList = createSecurityList({BookSecurity})
    /\ metricCrossedUpdates = [s \in {BookSecurity} |-> 0]
    /\ metricBookCrossed = EmptyMap
    /\ metricErrors = [s \in {BookSecurity} |->
                          [e \in {ErrOrderNotFound, ErrOrderAlreadyExists} |-> 0]]
    /\ connected = TRUE
    /\ subscribing = FALSE
    /\ last = [op |-> "createSecurityList", err |-> NoErr]
    /\ InitBridge
    /\ InitThreads
    /\ InitCommand
    /\ InitSubscription

CallAddOrder ==
    \E order \in Order :
        LET r == AddOrder(Book, order)
        IN /\ VolumesInRange(Book)
           /\ secList' = [secList EXCEPT ![BookSecurity] = r.o]
           /\ last' = [op |-> "AddOrder", err |-> r.err]
           /\ UNCHANGED <<metricVars, sessionVars, bridgeVars, subscriptionVars, threadVars, commandVars>>

CallUpdateOrder ==
    \E order \in Order :
        LET r == UpdateOrder(Book, order)
        IN /\ VolumesInRange(Book)
           /\ secList' = [secList EXCEPT ![BookSecurity] = r.o]
           /\ last' = [op |-> "UpdateOrder", err |-> r.err]
           /\ UNCHANGED <<metricVars, sessionVars, bridgeVars, subscriptionVars, threadVars, commandVars>>

CallDeleteOrder ==
    \E order \in Order :
        LET r == DeleteOrder(Book, order)
        IN /\ VolumesInRange(Book)
           /\ secList' = [secList EXCEPT ![BookSecurity] = r.o]
           /\ last' = [op |-> "DeleteOrder", err |-> r.err]
           /\ UNCHANGED <<metricVars, sessionVars, bridgeVars, subscriptionVars, threadVars, commandVars>>

NextOrders == CallAddOrder \/ CallUpdateOrder \/ CallDeleteOrder

SpecOrders == InitOrders /\ [][NextOrders]_vars

----------------------------------------------------------------------------
\* Spec: the validator application. The session engine calls OnLogon, OnLogout and,
\* while the session is logged on, FromApp with the market-data messages of the feed.

\* MarketDataValidatorOptions.Symbols
Symbols == {BookSecurity}

UpdateActions == {MDUpdateAction_NEW, MDUpdateAction_CHANGE, MDUpdateAction_DELETE}

\* what the entries of the feed's messages carry
MsgOrdTypes == {OrdType_LIMIT}
MsgPrices == {<<0 - 1>>, <<1>>}

\* entries of an incremental refresh that name an order completely
OrderEntries ==
    [MDEntryType : Sides, OrderID : OrderIds, OrdType : MsgOrdTypes,
     MDEntryPx : MsgPrices, MDEntrySize : MDEntrySizes,
     MDUpdateAction : UpdateActions, Symbol : Symbols]

BaseEntry ==
    [MDEntryType |-> MDEntryType_BID, OrderID |-> AllOrderIds[1],
     OrdType |-> OrdType_LIMIT, MDEntryPx |-> <<1>>, MDEntrySize |-> 10,
     MDUpdateAction |-> MDUpdateAction_NEW, Symbol |-> BookSecurity]

\* a Delete entry that names its order by OrderID and MDEntryType alone, without
\* OrdType and MDEntryPx (MDEntrySize is read only after both were found)
DeleteOnlyEntry ==
    [BaseEntry EXCEPT !.OrdType = NoField, !.MDEntryPx = NoValue,
                      !.MDUpdateAction = MDUpdateAction_DELETE]

\* entries that lack a field, are trades, or have an entry type the validator ignores
OtherEntries ==
    {[BaseEntry EXCEPT !.MDEntryType = NoField],
     [BaseEntry EXCEPT !.OrderID = NoField],
     [BaseEntry EXCEPT !.OrdType = NoField],
     [BaseEntry EXCEPT !.MDEntryPx = NoValue],
     [BaseEntry EXCEPT !.MDUpdateAction = NoField],
     [BaseEntry EXCEPT !.Symbol = NoField],
     [BaseEntry EXCEPT !.Symbol = "XYZ"],
     [BaseEntry EXCEPT !.MDEntryType = MDEntryType_TRADE],
     [BaseEntry EXCEPT !.MDEntryType = "4"],
     DeleteOnlyEntry}

SeqsUpTo(S, n) == UNION {[1..k -> S] : k \in 1..n}

IncrementalMsgs ==
    {[NoMDEntries |-> <<es>>] : es \in SeqsUpTo(OrderEntries \cup OtherEntries, MaxEntries)}
    \cup {[NoMDEntries |-> NoValue], [NoMDEntries |-> <<<<>>>>]}

\* entries of a snapshot: they carry no update action, and a price (MDEntryPx) that
\* the handler does not read
SnapshotMDEntries ==
    {[e EXCEPT !.MDUpdateAction = NoField] :
        e \in {x \in OrderEntries \cup OtherEntries :
                 /\ x.MDUpdateAction \in {MDUpdateAction_NEW, NoField}
                 /\ x.MDEntryPx \in {<<1>>, NoValue}
                 /\ x.Symbol = BookSecurity}}

SnapshotMsgs ==
    {[Symbol |-> BookSecurity, NoMDEntries |-> <<es>>] :
        es \in SeqsUpTo(SnapshotMDEntries, MaxEntries)}
    \cup {[Symbol |-> NoField, NoMDEntries |-> <<<<>>>>],
          [Symbol |-> "XYZ", NoMDEntries |-> <<<<>>>>],
          [Symbol |-> BookSecurity, NoMDEntries |-> <<<<>>>>],
          [Symbol |-> BookSecurity, NoMDEntries |-> NoValue]}

\* the validator's state as the handlers take it
V ==
    [secList |-> secList, crossedUpdates |-> metricCrossedUpdates,
     bookCrossed |-> metricBookCrossed, errors |-> metricErrors]

SetV(v) ==
    /\ secList' = v.secList
    /\ metricCrossedUpdates' = v.crossedUpdates
    /\ metricBookCrossed' = v.bookCrossed
    /\ metricErrors' = v.errors

RECURSIVE MapSumAll(_)
MapSumAll(m) ==
    IF DOMAIN m = {} THEN 0
    ELSE LET k == CHOOSE x \in DOMAIN m : TRUE
         IN MapSum(m[k]) + MapSumAll([x \in (DOMAIN m) \ {k} |-> m[x]])

CountersBelowCap == MapSum(metricCrossedUpdates) + MapSumAll(metricErrors) < MaxCount

\* the state NewMarketDataValidator returns
Init ==
    /\ secList = EmptyMap
    /\ metricCrossedUpdates = EmptyMap
    /\ metricBookCrossed = EmptyMap
    /\ metricErrors = EmptyMap
    /\ connected = FALSE
    /\ subscribing = FALSE
    /\ last = [op |-> "NewMarketDataValidator", err |-> NoErr]
    /\ InitBridge
    /\ InitThreads
    /\ InitCommand
    /\ InitSubscription

\* MarketDataValidator.OnLogon
OnLogon ==
    /\ ~connected
    /\ connected' = TRUE
    /\ subscribing' = TRUE
    /\ last' = [op |-> "OnLogon", err |-> NoErr]
    /\ UNCHANGED <<secList, metricVars, bridgeVars, subscriptionVars, threadVars, commandVars>>

\* MarketDataValidator.subscribe, in the goroutine OnLogon started
subscribe ==
    /\ subscribing
    /\ subscribing' = FALSE
    /\ SetV(buildSubscriptionMessage(V, Symbols))
    /\ last' = [op |-> "subscribe", err |-> NoErr]
    /\ UNCHANGED <<connected, bridgeVars, subscriptionVars, threadVars, commandVars>>

\* MarketDataValidator.OnLogout (the application is not stopped)
OnLogout ==
    /\ connected
    /\ connected' = FALSE
    /\ SetV(deleteSecList(V))
    /\ last' = [op |-> "OnLogout", err |-> NoErr]
    /\ UNCHANGED <<subscribing, bridgeVars, subscriptionVars, threadVars, commandVars>>

\* MarketDataValidator.FromApp routing a MarketDataSnapshotFullRefresh
FromAppSnapshotFullRefresh ==
    /\ connected
    /\ CountersBelowCap
    /\ \A s \in DOMAIN secList : VolumesInRange(secList[s])
    /\ \E msg \in SnapshotMsgs :
          LET r == onMarketDataSnapshotFullRefresh(V, msg)
          IN /\ SetV(r.v)
             /\ last' = [op |-> "onMarketDataSnapshotFullRefresh", err |-> r.reject]
    /\ UNCHANGED <<sessionVars, bridgeVars, subscriptionVars, threadVars, commandVars>>

\* MarketDataValidator.FromApp routing a MarketDataIncrementalRefresh
FromAppIncrementalRefresh ==
    /\ connected
    /\ CountersBelowCap
    /\ \A s \in DOMAIN secList : VolumesInRange(secList[s])
    /\ \E msg \in IncrementalMsgs :
          LET r == onMarketDataIncrementalRefresh(V, msg)
          IN /\ SetV(r.v)
             /\ last' = [op |-> "onMarketDataIncrementalRefresh", err |-> r.reject]
    /\ UNCHANGED <<sessionVars, bridgeVars, subscriptionVars, threadVars, commandVars>>

Next ==
    \/ OnLogon
    \/ subscribe
    \/ OnLogout
    \/ FromAppSnapshotFullRefresh
    \/ FromAppIncrementalRefresh

Spec == Init /\ [][Next]_vars

----------------------------------------------------------------------------
\* SpecBridge: the bridge application. The session engine calls OnLogon and OnLogout
\* as the sessions log on and off, and FromApp with the messages of the sessions that
\* are logged on; the router hands a client's NewOrderSingle and an exchange's
\* ExecutionReport to their handlers.

\* the ClOrdID a message carries, NoField when it carries none
MsgClOrdIDs == ClOrdIDs \cup {NoField}

\* what the copy of the fields, and the send, can return
CopyErrs == {NoErr, "Conditionally Required Field Missing"}
SendErrs == {NoErr, "session not found"}

B == [connectedExchanges |-> connectedExchanges, orderMapping |-> orderMapping]

SetB(b) ==
    /\ connectedExchanges' = b.connectedExchanges
    /\ orderMapping' = b.orderMapping

InitSpecBridge ==
    /\ InitBridge
    /\ InitThreads
    /\ InitCommand
    /\ InitSubscription
    /\ secList = EmptyMap
    /\ metricCrossedUpdates = EmptyMap
    /\ metricBookCrossed = EmptyMap
    /\ metricErrors = EmptyMap
    /\ connected = FALSE
    /\ subscribing = FALSE
    /\ last = [op |-> "NewBridge", err |-> NoErr]

\* Bridge.OnLogon, called when a session has logged on
BridgeOnLogon ==
    \E sessionID \in (Clients \cup Exchanges) \ loggedOn :
        /\ Len(connectedExchanges) < MaxConnected
        /\ SetB(Bridge_OnLogon(B, sessionID))
        /\ loggedOn' = loggedOn \cup {sessionID}
        /\ logonOrder' = IF sessionID \in Exchanges THEN Append(logonOrder, sessionID)
                         ELSE logonOrder
        /\ sent' = <<>>
        /\ last' = [op |-> "OnLogon", err |-> NoErr]
        /\ UNCHANGED <<routed, submitter, validatorVars, subscriptionVars, threadVars, commandVars>>

\* Bridge.OnLogout, called when a session has logged out or was disconnected
BridgeOnLogout ==
    \E sessionID \in loggedOn :
        /\ SetB(Bridge_OnLogout(B, sessionID))
        /\ loggedOn' = loggedOn \ {sessionID}
        /\ logonOrder' = SelectSeq(logonOrder, LAMBDA x : x # sessionID)
        /\ sent' = <<>>
        /\ last' = [op |-> "OnLogout", err |-> NoErr]
        /\ UNCHANGED <<routed, submitter, validatorVars, subscriptionVars, threadVars, commandVars>>

\* Bridge.FromApp routing a client's NewOrderSingle
FromAppNewOrderSingle ==
    \E sessionID \in Clients \cap loggedOn, clOrdId \in MsgClOrdIDs,
       copyErr \in CopyErrs, sendErr \in SendErrs :
        LET r == onNewOrderSingleClient(B, [ClOrdID |-> clOrdId], sessionID, copyErr, sendErr)
        IN /\ SetB(r.b)
           /\ sent' = r.sent
           /\ routed' = IF r.sent = <<>> THEN routed
                        ELSE routed \cup {<<r.sent[1].ClOrdID, r.sent[1].to>>}
           /\ submitter' = IF clOrdId = NoField THEN submitter
                           ELSE MapSet(submitter, clOrdId, sessionID)
           /\ last' = [op |-> "onNewOrderSingleClient", err |-> r.reject]
           /\ UNCHANGED <<loggedOn, logonOrder, validatorVars, subscriptionVars, threadVars, commandVars>>

\* Bridge.FromApp routing an exchange's ExecutionReport
FromAppExecutionReport ==
    \E sessionID \in Exchanges \cap loggedOn, clOrdId \in MsgClOrdIDs,
       copyErr \in CopyErrs, sendErr \in SendErrs :
        LET r == onExecutionReportExchange(B, [ClOrdID |-> clOrdId], sessionID, copyErr, sendErr)
        IN /\ SetB(r.b)
           /\ sent' = r.sent
           /\ last' = [op |-> "onExecutionReportExchange", err |-> r.reject]
           /\ UNCHANGED <<loggedOn, logonOrder, routed, submitter, validatorVars,
                          subscriptionVars, threadVars, commandVars>>

\* Bridge.FromApp routing a client's NewOrderSingle to the pass-through handler
FromAppForwardClientMessage ==
    \E sessionID \in Clients \cap loggedOn, clOrdId \in MsgClOrdIDs, sendErr \in SendErrs :
        LET msg == [ClOrdID |-> clOrdId, MsgType |-> MsgType_ORDER_SINGLE,
                    BeginString |-> SessionBeginString(sessionID)]
            r == forwardClientMessageToExchange(B, msg, sessionID, sendErr)
        IN /\ SetB(r.b)
           /\ sent' = r.sent
           /\ routed' = IF r.sent = <<>> THEN routed
                        ELSE routed \cup {<<r.sent[1].ClOrdID, r.sent[1].to>>}
           /\ submitter' = IF clOrdId = NoField THEN submitter
                           ELSE MapSet(submitter, clOrdId, sessionID)
           /\ last' = [op |-> "forwardClientMessageToExchange", err |-> r.reject]
           /\ UNCHANGED <<loggedOn, logonOrder, validatorVars, subscriptionVars, threadVars, commandVars>>

\* Bridge.FromApp routing an exchange's ExecutionReport to the pass-through handler
FromAppForwardExchangeMessage ==
    \E sessionID \in Exchanges \cap loggedOn, clOrdId \in MsgClOrdIDs, sendErr \in SendErrs :
        LET msg == [ClOrdID |-> clOrdId, MsgType |-> MsgType_EXECUTION_REPORT,
                    BeginString |-> SessionBeginString(sessionID)]
            r == forwardExchangeMessageToClient(B, msg, sessionID, sendErr)
        IN /\ SetB(r.b)
           /\ sent' = r.sent
           /\ last' = [op |-> "forwardExchangeMessageToClient", err |-> r.reject]
           /\ UNCHANGED <<loggedOn, logonOrder, routed, submitter, validatorVars,
                          subscriptionVars, threadVars, commandVars>>

NextBridge ==
    \/ BridgeOnLogon
    \/ BridgeOnLogout
    \/ FromAppNewOrderSingle
    \/ FromAppExecutionReport
    \/ FromAppForwardClientMessage
    \/ FromAppForwardExchangeMessage

SpecBridge == InitSpecBridge /\ [][NextBridge]_vars

----------------------------------------------------------------------------
\* Properties of the book (checked under SpecOrders).

Bids(o) == {o.orders[i] : i \in {j \in 1..Len(o.orders) : o.orders[j].Side = MDEntryType_BID}}

Offers(o) == {o.orders[i] : i \in {j \in 1..Len(o.orders) : o.orders[j].Side = MDEntryType_OFFER}}

\* a best pointer that names no order: nil, or the Order{} placeholder of a new book
NoBest(b) == b = NilOrder \/ b = ZeroOrder

\* the best bid is a bid of the book with the highest price; none iff there is no bid
BestBidCorrect(o) ==
    IF Bids(o) = {} THEN NoBest(o.bestBuyOrder)
    ELSE /\ o.bestBuyOrder \in Bids(o)
         /\ \A b \in Bids(o) : b.Price <= o.bestBuyOrder.Price

\* the best offer is an offer of the book with the lowest price; none iff there is no offer
BestOfferCorrect(o) ==
    IF Offers(o) = {} THEN NoBest(o.bestSellOrder)
    ELSE /\ o.bestSellOrder \in Offers(o)
         /\ \A b \in Offers(o) : b.Price >= o.bestSellOrder.Price

\* C1: whenever the last AddOrder / UpdateOrder / DeleteOrder call returned success,
\* bestBuyOrder is the highest-priced Bid of the book, and there is no best bid
\* exactly when the book holds no Bid.
C1_BestBidIsHighestBid == last.err = NoErr => BestBidCorrect(Book)

\* C2: starting from a freshly created book, whenever the last call returned success,
\* bestSellOrder is the lowest-priced Offer of the book, and there is no best offer
\* exactly when the book holds no Offer.
C2_BestOfferIsLowestOffer == last.err = NoErr => BestOfferCorrect(Book)

\* C8: in every reachable state of a book the number of orders equals the sum of
\* typesVolume and equals the sum of sidesVolume, whether the calls succeed or fail.
C8_BookBijection ==
    /\ Len(Book.orders) = MapSum(Book.typesVolume)
    /\ Len(Book.orders) = MapSum(Book.sidesVolume)

\* this step is the call UpdateOrder(order), and it returned success
IsUpdateOrderStep(order) ==
    /\ last'.op = "UpdateOrder"
    /\ last'.err = NoErr
    /\ UpdateOrder(Book, order).err = NoErr
    /\ secList' = [secList EXCEPT ![BookSecurity] = UpdateOrder(Book, order).o]

\* this step is the call DeleteOrder(order), and it returned success
IsDeleteOrderStep(order) ==
    /\ last'.op = "DeleteOrder"
    /\ last'.err = NoErr
    /\ DeleteOrder(Book, order).err = NoErr
    /\ secList' = [secList EXCEPT ![BookSecurity] = DeleteOrder(Book, order).o]

\* C9: when UpdateOrder succeeds on the order that is the best bid (the best offer),
\* afterwards the best of that side is the best-priced order of that side now in the
\* book, never the replaced, outdated order value.
C9_UpdateOfBestRecomputes ==
    [][\A order \in Order :
          /\ (/\ IsUpdateOrderStep(order)
              /\ Book.bestBuyOrder \in Bids(Book)
              /\ Book.bestBuyOrder.Id = order.Id)
             => BestBidCorrect(Book')
          /\ (/\ IsUpdateOrderStep(order)
              /\ Book.bestSellOrder \in Offers(Book)
              /\ Book.bestSellOrder.Id = order.Id)
             => BestOfferCorrect(Book')]_vars

\* C10: when DeleteOrder succeeds on the order that is the best bid (the best offer),
\* the order is removed, the counters of its type and side are decremented, and the
\* best of that side is the best-priced order among those remaining (none when the
\* side is empty), never an order that is no longer in the book.
C10_DeleteOfBestRecomputes ==
    [][\A order \in Order :
          /\ (/\ IsDeleteOrderStep(order)
              /\ Book.bestBuyOrder \in Bids(Book)
              /\ Book.bestBuyOrder.Id = order.Id)
             => /\ getOrder(Book', order.Id) = 0
                /\ MapGet(Book'.typesVolume, Book.bestBuyOrder.Type)
                     = MapGet(Book.typesVolume, Book.bestBuyOrder.Type) - 1
                /\ MapGet(Book'.sidesVolume, MDEntryType_BID)
                     = MapGet(Book.sidesVolume, MDEntryType_BID) - 1
                /\ BestBidCorrect(Book')
          /\ (/\ IsDeleteOrderStep(order)
              /\ Book.bestSellOrder \in Offers(Book)
              /\ Book.bestSellOrder.Id = order.Id)
             => /\ getOrder(Book', order.Id) = 0
                /\ MapGet(Book'.typesVolume, Book.bestSellOrder.Type)
                     = MapGet(Book.typesVolume, Book.bestSellOrder.Type) - 1
                /\ MapGet(Book'.sidesVolume, MDEntryType_OFFER)
                     = MapGet(Book.sidesVolume, MDEntryType_OFFER) - 1
                /\ BestOfferCorrect(Book')]_vars

----------------------------------------------------------------------------
\* Properties of the validator (checked under Spec).

\* the book holds a Bid and an Offer with bid price >= offer price
HoldsCrossingPair(o) == \E b \in Bids(o) : \E a \in Offers(o) : b.Price >= a.Price

\* a market-data handler has just processed a message to its end
RefreshProcessed ==
    /\ last.op \in {"onMarketDataSnapshotFullRefresh", "onMarketDataIncrementalRefresh"}
    /\ last.err = NoErr

\* C3: whenever, after a snapshot or an incremental refresh has been processed, a
\* security's book holds a Bid and an Offer with bid price >= offer price, the book
\* is reported crossed: isOrderBookCrossed returns true, the book_crossed gauge of the
\* security is 1 and its crossed_updates_total has been incremented.
C3_CrossedBookReported ==
    \A s \in DOMAIN secList :
        (RefreshProcessed /\ HoldsCrossingPair(secList[s]))
        => /\ isOrderBookCrossed(secList[s]).ret
           /\ s \in DOMAIN metricBookCrossed
           /\ metricBookCrossed[s] = 1
           /\ MapGet(metricCrossedUpdates, s) >= 1

----------------------------------------------------------------------------
\* Properties of the bridge (checked under SpecBridge).

\* C4: connectedExchanges holds exactly the non-FIXT sessions that are logged on, each
\* once, in the order they logged on; a FIXT session never appears in it.
C4_ConnectedExchangesAreLoggedOn ==
    /\ connectedExchanges = logonOrder
    /\ \A i \in 1..Len(connectedExchanges) : ~IsFIXT(connectedExchanges[i])

\* C5: whenever no exchange session is logged on, a client's order-flow message is
\* rejected with "No connected exchanges", is forwarded to no session and adds no
\* correlation entry.
C5_NoExchangeLoggedOnRejects ==
    [][(last'.op = "onNewOrderSingleClient" /\ logonOrder = <<>>)
          => /\ last'.err = "No connected exchanges"
             /\ sent' = <<>>
             /\ orderMapping' = orderMapping]_vars

\* this step is onNewOrderSingleClient for this client's order with this ClOrdID, with
\* the copy of the fields and the send having returned these errors
IsNewOrderSingleStep(sessionID, clOrdId, copyErr, sendErr) ==
    LET r == onNewOrderSingleClient(B, [ClOrdID |-> clOrdId], sessionID, copyErr, sendErr)
    IN /\ sessionID \in loggedOn
       /\ last'.op = "onNewOrderSingleClient"
       /\ last'.err = r.reject
       /\ connectedExchanges' = r.b.connectedExchanges
       /\ orderMapping' = r.b.orderMapping
       /\ sent' = r.sent

\* C6: for a client's order-flow message that carries a ClOrdID, the bridge records
\* ClOrdID -> client session and forwards the message to the first exchange session
\* that is logged on; it never forwards to an exchange session that has logged out.
C6_ForwardsToFirstLoggedOnExchange ==
    [][/\ \A sessionID \in Clients : \A clOrdId \in ClOrdIDs :
             (IsNewOrderSingleStep(sessionID, clOrdId, NoErr, NoErr) /\ logonOrder # <<>>)
             => /\ clOrdId \in DOMAIN orderMapping'
                /\ orderMapping'[clOrdId] = sessionID
                /\ sent' = <<Forwarded(MsgType_ORDER_SINGLE, clOrdId, logonOrder[1], sessionID)>>
       /\ (last'.op = "onNewOrderSingleClient" /\ sent' # <<>>)
             => sent'[1].to \in loggedOn]_vars

\* C7: every ExecutionReport the bridge forwards to a client carries the ClOrdID of an
\* earlier client order that was sent to the exchange session the report came from; a
\* report from another exchange session, or for an order whose forwarding failed, is
\* not forwarded.
C7_ReportFollowsRoutedOrder ==
    (last.op = "onExecutionReportExchange" /\ sent # <<>>)
    => <<sent[1].ClOrdID, sent[1].from>> \in routed

\* C11: isOrderBookCrossed returns true exactly when the book has a best bid and a best
\* offer (the highest-priced bid and the lowest-priced offer it holds) and the best
\* bid price is >= the best offer price, equal prices included; false otherwise.
C11_CrossedIffBestBidReachesBestOffer ==
    isOrderBookCrossed(Book).ret = HoldsCrossingPair(Book)

\* the value of the book_crossed gauge of a security (0 when it was never set)
BookCrossedGauge(s) == MapGet(metricBookCrossed, s)

\* C12: after every snapshot or incremental refresh processed for a security, the
\* book_crossed gauge of the security is 1 if its book is crossed and 0 otherwise.
C12_GaugeFollowsCrossedState ==
    \A s \in DOMAIN secList :
        RefreshProcessed
        => BookCrossedGauge(s) = IF isOrderBookCrossed(secList[s]).ret THEN 1 ELSE 0

\* C13: crossed_updates_total of a security is incremented by exactly one by a message
\* that takes its book from not crossed to crossed, and is left alone by every other
\* message: while the book stays crossed, stays uncrossed, or uncrosses.
C13_CrossedUpdatesCountTransitions ==
    [][\A s \in (DOMAIN secList) \cap (DOMAIN secList') :
          (/\ last'.op \in {"onMarketDataSnapshotFullRefresh", "onMarketDataIncrementalRefresh"}
           /\ last'.err = NoErr)
          => MapGet(metricCrossedUpdates', s) - MapGet(metricCrossedUpdates, s)
               = IF ~HoldsCrossingPair(secList[s]) /\ HoldsCrossingPair(secList'[s])
                 THEN 1 ELSE 0]_vars

\* this step is onMarketDataSnapshotFullRefresh processing msg
IsSnapshotStep(msg) ==
    LET r == onMarketDataSnapshotFullRefresh(V, msg)
    IN /\ last'.op = "onMarketDataSnapshotFullRefresh"
       /\ last'.err = r.reject
       /\ secList' = r.v.secList
       /\ metricCrossedUpdates' = r.v.crossedUpdates
       /\ metricBookCrossed' = r.v.bookCrossed
       /\ metricErrors' = r.v.errors

\* this step is onMarketDataIncrementalRefresh processing msg
IsIncrementalStep(msg) ==
    LET r == onMarketDataIncrementalRefresh(V, msg)
    IN /\ last'.op = "onMarketDataIncrementalRefresh"
       /\ last'.err = r.reject
       /\ secList' = r.v.secList
       /\ metricCrossedUpdates' = r.v.crossedUpdates
       /\ metricBookCrossed' = r.v.bookCrossed
       /\ metricErrors' = r.v.errors

\* a snapshot for a known security whose book is empty, with a single Bid entry that
\* carries OrderID, MDEntryPx, MDEntrySize and OrdType
IsSingleBidSnapshot(msg) ==
    /\ msg.Symbol \in DOMAIN secList
    /\ secList[msg.Symbol].orders = <<>>
    /\ msg.NoMDEntries # NoValue
    /\ Len(msg.NoMDEntries[1]) = 1
    /\ msg.NoMDEntries[1][1].MDEntryType = MDEntryType_BID
    /\ msg.NoMDEntries[1][1].OrderID # NoField
    /\ msg.NoMDEntries[1][1].OrdType # NoField
    /\ msg.NoMDEntries[1][1].MDEntryPx # NoValue

\* C14: after a snapshot with a single Bid entry is processed on the empty book of a
\* known security, the book holds exactly one order, the best bid is that order (its
\* id, and its MDEntryPx as price), there is no best offer and the book is not crossed.
C14_SingleBidSnapshot ==
    [][\A msg \in SnapshotMsgs :
          (IsSingleBidSnapshot(msg) /\ IsSnapshotStep(msg))
          => LET o == secList'[msg.Symbol]
                 e == msg.NoMDEntries[1][1]
             IN /\ Len(o.orders) = 1
                /\ o.bestBuyOrder.Id = e.OrderID
                /\ o.bestBuyOrder.Price = e.MDEntryPx[1]
                /\ NoBest(o.bestSellOrder)
                /\ ~isOrderBookCrossed(o).ret]_vars

\* C15: an incremental refresh with a Delete entry that carries only OrderID and
\* MDEntryType removes that order from the book; when it was the only bid, afterwards
\* there is no best bid, the book is not crossed and book_crossed is 0.
C15_DeleteByIdAndSide ==
    [][(/\ BookSecurity \in DOMAIN secList
        /\ getOrder(Book, DeleteOnlyEntry.OrderID) # 0
        /\ IsIncrementalStep([NoMDEntries |-> <<<<DeleteOnlyEntry>>>>]))
       => /\ getOrder(Book', DeleteOnlyEntry.OrderID) = 0
          /\ (\A b \in Bids(Book) : b.Id = DeleteOnlyEntry.OrderID)
             => /\ NoBest(Book'.bestBuyOrder)
                /\ ~isOrderBookCrossed(Book').ret
                /\ MapGet(metricBookCrossed', BookSecurity) = 0]_vars

----------------------------------------------------------------------------
\* SpecSubscribe: the subscription to the market data after logon. Either the
\* command's Execute subscribes (cmd/marketdata/validator), or the goroutine running
\* MarketDataValidator.subscribe that OnLogon starts. The counterparty may send a
\* SecurityList at any time while the session is logged on.

MsgType_SECURITY_LIST_REQUEST == "x"
MsgType_MARKET_DATA_REQUEST == "V"

\* the symbols a SecurityList can name
ListedSymbols == {BookSecurity, "XYZ"}

\* the SecurityList messages: without NoRelatedSym, or with a group of up to MaxListed
\* entries, each entry with its Symbol or without
SecurityListMsgs ==
    {[NoRelatedSym |-> <<g>>] :
        g \in UNION {[1..k -> ListedSymbols \cup {NoField}] : k \in 0..MaxListed}}
    \cup {[NoRelatedSym |-> NoValue]}

\* the values of a sequence
Range(q) == {q[i] : i \in 1..Len(q)}

\* the orders in which ranging over a Go map can visit its keys
Orderings(S) ==
    {q \in [1..Cardinality(S) -> S] : \A x \in S : \E i \in 1..Cardinality(S) : q[i] = x}

\* the loop of the command's loadSymbolsFromFix: the symbols are appended to
\* optionSymbol up to the first entry without Symbol; complete when none lacks it
RECURSIVE AppendSymbols(_, _)
AppendSymbols(symbols, group) ==
    IF group = <<>> THEN [optionSymbol |-> symbols, complete |-> TRUE]
    ELSE IF Head(group) = NoField THEN [optionSymbol |-> symbols, complete |-> FALSE]
    ELSE AppendSymbols(Append(symbols, Head(group)), Tail(group))

\* MarketDataValidator.UpdateSecurityList of the application the command is built with
UpdateSecurityList(v, symbols) == [v EXCEPT !.secList = createSecurityList(symbols)]

\* the validator and the command when the command starts, with or without --symbol
InitSubscribe ==
    /\ secList = EmptyMap
    /\ metricCrossedUpdates = EmptyMap
    /\ metricBookCrossed = EmptyMap
    /\ metricErrors = EmptyMap
    /\ connected = FALSE
    /\ subscribing = FALSE
    /\ last = [op |-> "NewMarketDataValidator", err |-> NoErr]
    /\ InitBridge
    /\ InitThreads
    /\ InitCommand
    /\ driver \in {"Execute", "subscribe"}
    /\ subPc = "waitLogon"
    /\ configuredSymbols \in {<<>>, <<BookSecurity>>}
    /\ optionSymbol = configuredSymbols
    /\ SecurityListResponse = <<>>
    /\ responseMessage = <<>>
    /\ outbox = <<>>

bookVars == <<secList, metricVars>>

\* the session logs on: OnLogon starts the subscribe goroutine, or releases Execute
\* from its wait for the connection
SubscriberOnLogon ==
    /\ subPc = "waitLogon"
    /\ ~connected
    /\ connected' = TRUE
    /\ subPc' = "start"
    /\ last' = [op |-> "OnLogon", err |-> NoErr]
    /\ UNCHANGED <<bookVars, subscribing, bridgeVars, threadVars, commandVars, driver, configuredSymbols,
                   optionSymbol, SecurityListResponse, responseMessage, outbox>>

\* Execute: the wait for the connection times out and Execute returns
ConnectionTimeout ==
    /\ driver = "Execute"
    /\ subPc = "waitLogon"
    /\ subPc' = "returned"
    /\ last' = [op |-> "Execute", err |-> "ConnectionTimeout"]
    /\ UNCHANGED <<bookVars, sessionVars, bridgeVars, threadVars, commandVars, driver, configuredSymbols,
                   optionSymbol, SecurityListResponse, responseMessage, outbox>>

\* no symbol is configured: loadSymbolsFromFix sends the SecurityListRequest and
\* starts to wait. subscribe returns a send error (OnLogon's goroutine panics);
\* Execute drops the value loadSymbolsFromFix returns and goes on.
RequestSecurityList ==
    /\ subPc = "start"
    /\ Len(optionSymbol) = 0
    /\ \E sendErr \in SendErrs :
          /\ IF sendErr = NoErr
             THEN /\ outbox' = Append(outbox, [MsgType |-> MsgType_SECURITY_LIST_REQUEST])
                  /\ subPc' = "waitResponse"
             ELSE /\ outbox' = outbox
                  /\ subPc' = IF driver = "Execute" THEN "build" ELSE "failed"
          /\ last' = [op |-> "loadSymbolsFromFix", err |-> sendErr]
    /\ UNCHANGED <<bookVars, sessionVars, bridgeVars, threadVars, commandVars, driver, configuredSymbols,
                   optionSymbol, SecurityListResponse, responseMessage>>

\* symbols are configured: buildSubscriptionMessage creates their books; Execute
\* goes straight to buildMessage
UseConfiguredSymbols ==
    /\ subPc = "start"
    /\ Len(optionSymbol) # 0
    /\ IF driver = "subscribe"
       THEN SetV(buildSubscriptionMessage(V, Range(optionSymbol)))
       ELSE UNCHANGED bookVars
    /\ subPc' = "build"
    /\ last' = [op |-> "buildSubscriptionMessage", err |-> NoErr]
    /\ UNCHANGED <<sessionVars, bridgeVars, threadVars, commandVars, driver, configuredSymbols, optionSymbol,
                   SecurityListResponse, responseMessage, outbox>>

\* MarketDataValidator.FromApp with a SecurityList: the message is handed to the
\* channel SecurityListResponse, where it stays until the subscriber takes it
FromAppSecurityList ==
    /\ connected
    /\ SecurityListResponse = <<>>
    /\ \E message \in SecurityListMsgs : SecurityListResponse' = <<message>>
    /\ last' = [op |-> "FromApp", err |-> NoErr]
    /\ UNCHANGED <<bookVars, sessionVars, bridgeVars, threadVars, commandVars, driver, subPc, configuredSymbols,
                   optionSymbol, responseMessage, outbox>>

\* loadSymbolsFromFix takes the SecurityList from the channel and reads its symbols
ReceiveSecurityList ==
    /\ subPc = "waitResponse"
    /\ SecurityListResponse # <<>>
    /\ LET message == SecurityListResponse[1]
       IN /\ SecurityListResponse' = <<>>
          /\ responseMessage' = <<message>>
          /\ IF message.NoRelatedSym = NoValue
             THEN /\ subPc' = IF driver = "Execute" THEN "build" ELSE "failed"
                  /\ last' = [op |-> "loadSymbolsFromFix",
                              err |-> "Conditionally Required Field Missing"]
                  /\ UNCHANGED <<bookVars, optionSymbol>>
             ELSE LET r == AppendSymbols(optionSymbol, message.NoRelatedSym[1])
                  IN IF driver = "Execute"
                     THEN /\ optionSymbol' = r.optionSymbol
                          /\ IF r.complete
                             THEN SetV(UpdateSecurityList(V, Range(r.optionSymbol)))
                             ELSE UNCHANGED bookVars
                          /\ subPc' = "build"
                          /\ last' = [op |-> "loadSymbolsFromFix", err |-> NoErr]
                     ELSE /\ optionSymbol' = optionSymbol
                          /\ IF r.complete
                             THEN /\ SetV(buildSubscriptionMessage(V, Range(r.optionSymbol)))
                                  /\ subPc' = "build"
                                  /\ last' = [op |-> "loadSymbolsFromFix", err |-> NoErr]
                             ELSE /\ UNCHANGED bookVars
                                  /\ subPc' = "failed"
                                  /\ last' = [op |-> "loadSymbolsFromFix",
                                              err |-> "error while getting symbol"]
    /\ UNCHANGED <<sessionVars, bridgeVars, threadVars, commandVars, driver, configuredSymbols, outbox>>

\* the wait for the SecurityList ends on time.After: loadSymbolsFromFix returns
\* ResponseTimeout. subscribe returns it; Execute drops it and goes on.
ResponseTimeout ==
    /\ subPc = "waitResponse"
    /\ subPc' = IF driver = "Execute" THEN "build" ELSE "failed"
    /\ last' = [op |-> "loadSymbolsFromFix", err |-> "ResponseTimeout"]
    /\ UNCHANGED <<bookVars, sessionVars, bridgeVars, threadVars, commandVars, driver, configuredSymbols,
                   optionSymbol, SecurityListResponse, responseMessage, outbox>>

\* the MarketDataRequest is built and sent: NoRelatedSym holds optionSymbol (Execute)
\* or the keys of secList in the order the range visits them (subscribe); a send error
\* makes both panic
SendMarketDataRequest ==
    /\ subPc = "build"
    /\ \E sendErr \in SendErrs :
       \E relatedSym \in IF driver = "Execute" THEN {optionSymbol}
                         ELSE Orderings(DOMAIN secList) :
          /\ IF sendErr = NoErr
             THEN /\ outbox' = Append(outbox, [MsgType |-> MsgType_MARKET_DATA_REQUEST,
                                               NoRelatedSym |-> relatedSym])
                  /\ subPc' = "subscribed"
             ELSE /\ outbox' = outbox
                  /\ subPc' = "failed"
          /\ last' = [op |-> driver, err |-> sendErr]
    /\ UNCHANGED <<bookVars, sessionVars, bridgeVars, threadVars, commandVars, driver, configuredSymbols,
                   optionSymbol, SecurityListResponse, responseMessage>>

NextSubscribe ==
    \/ SubscriberOnLogon
    \/ ConnectionTimeout
    \/ RequestSecurityList
    \/ UseConfiguredSymbols
    \/ FromAppSecurityList
    \/ ReceiveSecurityList
    \/ ResponseTimeout
    \/ SendMarketDataRequest

SpecSubscribe == InitSubscribe /\ [][NextSubscribe]_vars

----------------------------------------------------------------------------
\* how many orders of the book carry this id
CountId(o, id) == Cardinality({i \in 1..Len(o.orders) : o.orders[i].Id = id})

\* C16: AddOrder with an id that is already in the book returns ErrOrderAlreadyExists
\* and leaves the book (orders, counters, best bid, best offer) as it was; so no two
\* orders of a book ever share an id, and after a successful AddOrder or UpdateOrder
\* exactly one order of the book has the id of the order given.
C16_DuplicateIdRefused ==
    /\ \A id \in OrderIds : CountId(Book, id) <= 1
    /\ \A order \in Order :
          /\ LET r == AddOrder(Book, order)
             IN IF getOrder(Book, order.Id) # 0
                THEN r.err = ErrOrderAlreadyExists /\ r.o = Book
                ELSE r.err = NoErr /\ CountId(r.o, order.Id) = 1
          /\ LET r == UpdateOrder(Book, order)
             IN r.err = NoErr => CountId(r.o, order.Id) = 1

\* AddOrder has just refused an order whose id the book holds
C16_Witness ==
    /\ last.op = "AddOrder"
    /\ last.err = ErrOrderAlreadyExists
    /\ Len(Book.orders) = NumOrderIds

----------------------------------------------------------------------------
\* C17: UpdateOrder and DeleteOrder called with an id that is not in the book return
\* ErrOrderNotFound and leave the whole book as it was: orders, typesVolume,
\* sidesVolume, best bid, best offer and the crossed flag.
C17_UnknownIdLeavesBook ==
    \A order \in Order :
        getOrder(Book, order.Id) = 0 =>
            /\ UpdateOrder(Book, order) = [o |-> Book, err |-> ErrOrderNotFound]
            /\ DeleteOrder(Book, order) = [o |-> Book, err |-> ErrOrderNotFound]

\* UpdateOrder or DeleteOrder has just been refused on a book that holds an order
C17_Witness ==
    /\ last.op \in {"UpdateOrder", "DeleteOrder"}
    /\ last.err = ErrOrderNotFound
    /\ Len(Book.orders) > 0

----------------------------------------------------------------------------
\* the error the book call of a complete order entry must return on book o: NEW on an
\* id the book holds, CHANGE or DELETE on an id it does not hold (NoErr otherwise)
ExpectedBookError(o, mdentry) ==
    IF mdentry.MDUpdateAction = MDUpdateAction_NEW
    THEN IF getOrder(o, mdentry.OrderID) # 0 THEN ErrOrderAlreadyExists ELSE NoErr
    ELSE IF getOrder(o, mdentry.OrderID) = 0 THEN ErrOrderNotFound ELSE NoErr

ErrorLabels == {ErrOrderNotFound, ErrOrderAlreadyExists, ErrSomethingWrong}

\* the value of errors_total{security, error}
ErrorsTotal(v, security, err) ==
    IF security \in DOMAIN v.errors THEN MapGet(v.errors[security], err) ELSE 0

\* state v1 is state v2 with errors_total{security, err} one higher
SameButOneError(v1, v2, security, err) ==
    /\ v1.secList = v2.secList
    /\ v1.crossedUpdates = v2.crossedUpdates
    /\ v1.bookCrossed = v2.bookCrossed
    /\ \A l \in ErrorLabels :
          ErrorsTotal(v1, security, l)
             = ErrorsTotal(v2, security, l) + (IF l = err THEN 1 ELSE 0)

\* snapshot entries that name an order completely
SnapshotOrderEntries ==
    {e \in SnapshotMDEntries :
        e.MDEntryType \in Sides /\ e.OrderID # NoField /\ e.OrdType # NoField}

\* the entries tried after a failing one: every action on every id as a Bid at one
\* price, a trade, and an entry the handler skips
FollowingEntries ==
    {e \in OrderEntries : e.MDEntryType = MDEntryType_BID /\ e.MDEntryPx = <<1>>}
    \cup {[BaseEntry EXCEPT !.MDEntryType = MDEntryType_TRADE], DeleteOnlyEntry}

SnapshotFollowingEntries ==
    {e \in SnapshotMDEntries : e.MDEntryType \in {MDEntryType_BID, MDEntryType_TRADE}}

\* C18: when the book call of a market-data entry fails with ErrOrderAlreadyExists or
\* ErrOrderNotFound, errors_total{security, error} goes up by exactly 1 under the error
\* text, the entries after it are processed as they would be without it, and the
\* handler returns no reject. Checked on every reachable state with each failing entry
\* followed by each of FollowingEntries, for both handlers.
C18_FailedEntryCountedAndSkipped ==
    BookSecurity \in DOMAIN secList =>
        /\ \A e2 \in FollowingEntries :
              LET r2 == onMarketDataIncrementalRefresh(V, [NoMDEntries |-> <<<<e2>>>>])
              IN \A e1 \in OrderEntries :
                    ExpectedBookError(Book, e1) # NoErr =>
                       LET r == onMarketDataIncrementalRefresh(
                                   V, [NoMDEntries |-> <<<<e1, e2>>>>])
                       IN /\ r.reject = NoErr
                          /\ r2.reject = NoErr
                          /\ SameButOneError(r.v, r2.v, BookSecurity,
                                             ExpectedBookError(Book, e1))
        /\ \A e2 \in SnapshotFollowingEntries :
              LET r2 == onMarketDataSnapshotFullRefresh(
                           V, [Symbol |-> BookSecurity, NoMDEntries |-> <<<<e2>>>>])
              IN \A e1 \in SnapshotOrderEntries :
                    getOrder(Book, e1.OrderID) # 0 =>
                       LET r == onMarketDataSnapshotFullRefresh(
                                   V, [Symbol |-> BookSecurity,
                                       NoMDEntries |-> <<<<e1, e2>>>>])
                       IN /\ r.reject = NoErr
                          /\ r2.reject = NoErr
                          /\ SameButOneError(r.v, r2.v, BookSecurity, ErrOrderAlreadyExists)

\* a handler has accepted a message one of whose book calls failed, and the book holds
\* an order
C18_Witness ==
    /\ RefreshProcessed
    /\ BookSecurity \in DOMAIN secList
    /\ \E err \in {ErrOrderNotFound, ErrOrderAlreadyExists} :
          ErrorsTotal(V, BookSecurity, err) > 0
    /\ Len(Book.orders) > 0

----------------------------------------------------------------------------
\* the symbols a SecurityList names
SymbolsOf(message) ==
    IF message.NoRelatedSym = NoValue THEN {}
    ELSE Range(message.NoRelatedSym[1]) \ {NoField}

\* the MarketDataRequests sent so far
MarketDataRequestsSent ==
    {i \in 1..Len(outbox) : outbox[i].MsgType = MsgType_MARKET_DATA_REQUEST}

\* C19: when no symbol is configured, a MarketDataRequest is sent only after the
\* SecurityListRequest was sent and the SecurityList response was received, its
\* NoRelatedSym holds exactly the symbols of that response, and it is never sent with
\* an empty, unseeded symbol list (in particular not after the wait for the response
\* timed out).
C19_SubscribesAfterSecurityList ==
    configuredSymbols = <<>> =>
        \A i \in MarketDataRequestsSent :
            /\ \E j \in 1..(i - 1) : outbox[j].MsgType = MsgType_SECURITY_LIST_REQUEST
            /\ responseMessage # <<>>
            /\ Range(outbox[i].NoRelatedSym) = SymbolsOf(responseMessage[1])
            /\ outbox[i].NoRelatedSym # <<>>

----------------------------------------------------------------------------
\* this step is onExecutionReportExchange for a report with this ClOrdID from this
\* exchange session, with the copy of the fields and the send having returned these
\* errors
IsExecutionReportStep(sessionID, clOrdId, copyErr, sendErr) ==
    LET r == onExecutionReportExchange(B, [ClOrdID |-> clOrdId], sessionID, copyErr, sendErr)
    IN /\ sessionID \in loggedOn
       /\ last'.op = "onExecutionReportExchange"
       /\ last'.err = r.reject
       /\ connectedExchanges' = r.b.connectedExchanges
       /\ orderMapping' = r.b.orderMapping
       /\ sent' = r.sent

\* C20: a response from an exchange whose ClOrdID has an entry in orderMapping is
\* forwarded to the client session recorded for that ClOrdID, which is the session
\* that submitted the ClOrdID last, and to no other session: one message goes out,
\* to that session, when the copy and the send succeed, and none otherwise.
C20_ResponseGoesToRecordedClient ==
    [][\A sessionID \in Exchanges : \A clOrdId \in ClOrdIDs :
       \A copyErr \in CopyErrs : \A sendErr \in SendErrs :
          (clOrdId \in DOMAIN orderMapping
             /\ IsExecutionReportStep(sessionID, clOrdId, copyErr, sendErr))
          => /\ clOrdId \in DOMAIN submitter
             /\ orderMapping[clOrdId] = submitter[clOrdId]
             /\ IF copyErr = NoErr /\ sendErr = NoErr
                THEN /\ Len(sent') = 1
                     /\ sent'[1].to = submitter[clOrdId]
                     /\ sent'[1].ClOrdID = clOrdId
                     /\ sent'[1].MsgType = MsgType_EXECUTION_REPORT
                ELSE sent' = <<>>]_vars

\* a report was forwarded to a client for a ClOrdID that both clients have submitted
C20_Witness ==
    /\ last.op = "onExecutionReportExchange"
    /\ sent # <<>>
    /\ sent[1].to = orderMapping[sent[1].ClOrdID]
    /\ sent[1].to = AllClients[2]
    /\ \E id \in DOMAIN orderMapping : orderMapping[id] = AllClients[1]

----------------------------------------------------------------------------
\* C21: an exchange response without ClOrdID, or whose ClOrdID has no entry in
\* orderMapping, is dropped: nothing is forwarded, the handler returns no reject, and
\* the session stays logged on.
C21_UncorrelatedResponseDropped ==
    [][\A sessionID \in Exchanges : \A clOrdId \in MsgClOrdIDs :
       \A copyErr \in CopyErrs : \A sendErr \in SendErrs :
          ((clOrdId = NoField \/ clOrdId \notin DOMAIN orderMapping)
             /\ IsExecutionReportStep(sessionID, clOrdId, copyErr, sendErr))
          => /\ sent' = <<>>
             /\ last'.err = NoErr
             /\ loggedOn' = loggedOn]_vars

----------------------------------------------------------------------------
\* C22: entries of orderMapping are never removed; once the client session recorded
\* for a ClOrdID has logged out, an exchange response with that ClOrdID is dropped:
\* nothing is handed to the lost client session and no reject is returned.
C22_OrphanedEntryDropsResponse ==
    [][/\ DOMAIN orderMapping \subseteq DOMAIN orderMapping'
       /\ \A sessionID \in Exchanges : \A clOrdId \in ClOrdIDs :
          \A copyErr \in CopyErrs : \A sendErr \in SendErrs :
             (/\ clOrdId \in DOMAIN orderMapping
              /\ orderMapping[clOrdId] \notin loggedOn
              /\ IsExecutionReportStep(sessionID, clOrdId, copyErr, sendErr))
             => /\ sent' = <<>>
                /\ last'.err = NoErr]_vars

----------------------------------------------------------------------------
\* SpecBridgeThreads: the bridge with its handlers as they run, one goroutine per
\* session. The session engine calls OnLogon, OnLogout and FromApp of the one Bridge
\* from each session's own goroutine; Bridge has no mutex, so nothing orders the
\* accesses of two handlers to orderMapping. An access to the map takes time: it
\* starts (StartAccess) and it ends (FinishWrite, FinishRead). Two accesses under way
\* at once, one of them a write, are a data race: the runtime may stop the program
\* (crashed), and a read may see the map with or without the entry being written.
\* The records routed and submitter, kept for the properties of SpecBridge, are not
\* kept here.

\* the sessions whose handler is inside an access to orderMapping
Accessing == {s \in Clients \cup Exchanges : handler[s].pc \in {"writing", "reading"}}

Writing == {s \in Clients \cup Exchanges : handler[s].pc = "writing"}

\* the sessions whose goroutine is inside a handler
Running == {s \in Clients \cup Exchanges : handler[s].pc # "idle"}

InitBridgeThreads == InitSpecBridge

\* Bridge.OnLogon, on the goroutine of the session
ThreadOnLogon ==
    \E sessionID \in (Clients \cup Exchanges) \ loggedOn :
        /\ ~crashed
        /\ handler[sessionID].pc = "idle"
        /\ Len(connectedExchanges) < MaxConnected
        /\ SetB(Bridge_OnLogon(B, sessionID))
        /\ loggedOn' = loggedOn \cup {sessionID}
        /\ logonOrder' = IF sessionID \in Exchanges THEN Append(logonOrder, sessionID)
                         ELSE logonOrder
        /\ sent' = <<>>
        /\ last' = [op |-> "OnLogon", err |-> NoErr]
        /\ UNCHANGED <<routed, submitter, validatorVars, subscriptionVars, threadVars, commandVars>>

\* Bridge.OnLogout, on the goroutine of the session
ThreadOnLogout ==
    \E sessionID \in loggedOn :
        /\ ~crashed
        /\ handler[sessionID].pc = "idle"
        /\ SetB(Bridge_OnLogout(B, sessionID))
        /\ loggedOn' = loggedOn \ {sessionID}
        /\ logonOrder' = SelectSeq(logonOrder, LAMBDA x : x # sessionID)
        /\ sent' = <<>>
        /\ last' = [op |-> "OnLogout", err |-> NoErr]
        /\ UNCHANGED <<routed, submitter, validatorVars, subscriptionVars, threadVars, commandVars>>

\* onNewOrderSingleClient up to the assignment to orderMapping: the checks that return
\* a reject, and the choice of the target
ClientOrderArrives ==
    \E sessionID \in Clients \cap loggedOn, clOrdId \in MsgClOrdIDs :
        /\ ~crashed
        /\ handler[sessionID].pc = "idle"
        /\ Cardinality(Running) < MaxRunning
        /\ IF Len(connectedExchanges) = 0
           THEN /\ last' = [op |-> "onNewOrderSingleClient", err |-> "No connected exchanges"]
                /\ UNCHANGED handler
           ELSE IF clOrdId = NoField
           THEN /\ last' = [op |-> "onNewOrderSingleClient", err |-> "Missing ClOrdID"]
                /\ UNCHANGED handler
           ELSE /\ last' = [op |-> "onNewOrderSingleClient", err |-> NoErr]
                /\ handler' = [handler EXCEPT ![sessionID] =
                                 [pc |-> "write", ClOrdID |-> clOrdId,
                                  target |-> <<connectedExchanges[1]>>, client |-> <<>>]]
        /\ sent' = <<>>
        /\ UNCHANGED <<connectedExchanges, orderMapping, loggedOn, logonOrder, routed,
                       submitter, crashed, validatorVars, subscriptionVars, commandVars>>

\* onExecutionReportExchange up to the lookup in orderMapping
ExchangeReportArrives ==
    \E sessionID \in Exchanges \cap loggedOn, clOrdId \in MsgClOrdIDs :
        /\ ~crashed
        /\ handler[sessionID].pc = "idle"
        /\ Cardinality(Running) < MaxRunning
        /\ IF clOrdId = NoField
           THEN /\ last' = [op |-> "onExecutionReportExchange", err |-> "Missing ClOrdID"]
                /\ UNCHANGED handler
           ELSE /\ last' = [op |-> "onExecutionReportExchange", err |-> NoErr]
                /\ handler' = [handler EXCEPT ![sessionID] =
                                 [pc |-> "read", ClOrdID |-> clOrdId,
                                  target |-> <<>>, client |-> <<>>]]
        /\ sent' = <<>>
        /\ UNCHANGED <<connectedExchanges, orderMapping, loggedOn, logonOrder, routed,
                       submitter, crashed, validatorVars, subscriptionVars, commandVars>>

\* a handler enters its access to orderMapping; no lock is taken before it. When
\* another access is under way and one of the two writes, the runtime may detect the
\* concurrent map access and stop the program.
StartAccess ==
    \E sessionID \in Clients \cup Exchanges :
        /\ ~crashed
        /\ handler[sessionID].pc \in {"write", "read"}
        /\ handler' = [handler EXCEPT ![sessionID].pc =
                          IF handler[sessionID].pc = "write" THEN "writing" ELSE "reading"]
        /\ \E stop \in BOOLEAN :
              /\ stop => (Writing # {} \/ (handler[sessionID].pc = "write" /\ Accessing # {}))
              /\ crashed' = stop
        /\ UNCHANGED <<last, connectedExchanges, orderMapping, loggedOn, logonOrder, routed,
                       submitter, sent, validatorVars, subscriptionVars, commandVars>>

\* app.orderMapping[clOrdId] = sessionID has been carried out
FinishWrite ==
    \E sessionID \in Clients :
        /\ ~crashed
        /\ handler[sessionID].pc = "writing"
        /\ orderMapping' = MapSet(orderMapping, handler[sessionID].ClOrdID, sessionID)
        /\ handler' = [handler EXCEPT ![sessionID].pc = "send"]
        /\ UNCHANGED <<last, connectedExchanges, loggedOn, logonOrder, routed, submitter, sent,
                       crashed, validatorVars, subscriptionVars, commandVars>>

\* clientSessionID, found := app.orderMapping[clOrdId] has been carried out; a read that
\* overlaps the write of the same key sees the map before or after that write
FinishRead ==
    \E sessionID \in Exchanges :
        /\ ~crashed
        /\ handler[sessionID].pc = "reading"
        /\ LET clOrdId == handler[sessionID].ClOrdID
               stored == IF clOrdId \in DOMAIN orderMapping
                         THEN {<<orderMapping[clOrdId]>>} ELSE {<<>>}
               racing == {<<w>> : w \in {x \in Writing : handler[x].ClOrdID = clOrdId}}
           IN \E found \in stored \cup racing :
                 handler' = [handler EXCEPT ![sessionID].pc = "send",
                                            ![sessionID].client = found]
        /\ UNCHANGED <<last, connectedExchanges, orderMapping, loggedOn, logonOrder, routed,
                       submitter, sent, crashed, validatorVars, subscriptionVars, commandVars>>

\* the rest of the handler: the message is built, the fields are copied and the
\* message is handed to quickfix.SendToTarget
FinishHandler ==
    \E sessionID \in Clients \cup Exchanges, copyErr \in CopyErrs, sendErr \in SendErrs :
        LET h == handler[sessionID]
            op == IF sessionID \in Clients THEN "onNewOrderSingleClient"
                  ELSE "onExecutionReportExchange"
            msgType == IF sessionID \in Clients THEN MsgType_ORDER_SINGLE
                       ELSE MsgType_EXECUTION_REPORT
            to == IF sessionID \in Clients THEN h.target ELSE h.client
        IN /\ ~crashed
           /\ h.pc = "send"
           /\ handler' = [handler EXCEPT ![sessionID] = HandlerIdle]
           /\ IF to = <<>>
              THEN /\ sent' = <<>>
                   /\ last' = [op |-> op, err |-> NoErr]
              ELSE IF copyErr # NoErr
              THEN /\ sent' = <<>>
                   /\ last' = [op |-> op, err |-> copyErr]
              ELSE IF sendErr # NoErr
              THEN /\ sent' = <<>>
                   /\ last' = [op |-> op, err |-> sendErr]
              ELSE /\ sent' = <<Forwarded(msgType, h.ClOrdID, to[1], sessionID)>>
                   /\ last' = [op |-> op, err |-> NoErr]
           /\ UNCHANGED <<connectedExchanges, orderMapping, loggedOn, logonOrder, routed,
                          submitter, crashed, validatorVars, subscriptionVars, commandVars>>

NextBridgeThreads ==
    \/ ThreadOnLogon
    \/ ThreadOnLogout
    \/ ClientOrderArrives
    \/ ExchangeReportArrives
    \/ StartAccess
    \/ FinishWrite
    \/ FinishRead
    \/ FinishHandler

SpecBridgeThreads == InitBridgeThreads /\ [][NextBridgeThreads]_vars

\* C23: orderMapping is read or written only under an exclusive lock: the handlers of
\* two sessions are never inside an access to it at the same time.
C23_OrderMappingAccessExclusive == Cardinality(Accessing) <= 1

----------------------------------------------------------------------------
\* the handlers that forward a client's message, and those that forward an exchange's
ClientForwarders == {"onNewOrderSingleClient", "forwardClientMessageToExchange"}
ExchangeForwarders == {"onExecutionReportExchange", "forwardExchangeMessageToClient"}

\* C24: every message the bridge forwards carries the BeginString of the session it is
\* sent to (the exchange session's for a client order, FIXT.1.1 for a response sent to
\* a client), the MsgType of the source message and its ClOrdID.
C24_ForwardedMessageStamped ==
    (sent # <<>> /\ last.op \in ClientForwarders \cup ExchangeForwarders)
    => /\ sent[1].BeginString = SessionBeginString(sent[1].to)
       /\ sent[1].to \in Clients => sent[1].BeginString = BeginStringFIXT11
       /\ sent[1].MsgType = IF last.op \in ClientForwarders THEN MsgType_ORDER_SINGLE
                            ELSE MsgType_EXECUTION_REPORT
       /\ sent[1].ClOrdID \in ClOrdIDs

----------------------------------------------------------------------------
\* SpecTranslate: the translating handlers of the bridge with the body of the source
\* message. A body is the set of the tags it carries; the handler copies the tags of
\* its field description list into the message it builds.

\* the field description list of onNewOrderSingleClient
NewOrderSingleFields ==
    << [tag |-> "OrderQty", required |-> TRUE],
       [tag |-> "OrdType", required |-> TRUE],
       [tag |-> "Price", required |-> FALSE],
       [tag |-> "Side", required |-> TRUE],
       [tag |-> "Symbol", required |-> TRUE],
       [tag |-> "TimeInForce", required |-> TRUE],
       [tag |-> "TransactTime", required |-> TRUE],
       [tag |-> "OrderOrigination", required |-> FALSE] >>

\* the field description list of onExecutionReportExchange
ExecutionReportFields ==
    << [tag |-> "Account", required |-> FALSE],
       [tag |-> "OrderID", required |-> TRUE],
       [tag |-> "SecondaryOrderID", required |-> FALSE],
       [tag |-> "OrigClOrdID", required |-> FALSE],
       [tag |-> "ExecID", required |-> TRUE],
       [tag |-> "TrdMatchID", required |-> FALSE],
       [tag |-> "ExecType", required |-> TRUE],
       [tag |-> "OrdStatus", required |-> TRUE],
       [tag |-> "Symbol", required |-> TRUE],
       [tag |-> "OrdType", required |-> TRUE],
       [tag |-> "TimeInForce", required |-> TRUE],
       [tag |-> "Side", required |-> TRUE],
       [tag |-> "Price", required |-> FALSE],
       [tag |-> "LastPx", required |-> FALSE],
       [tag |-> "CumQty", required |-> TRUE],
       [tag |-> "OrderQty", required |-> FALSE],
       [tag |-> "LeavesQty", required |-> TRUE],
       [tag |-> "LastQty", required |-> FALSE],
       [tag |-> "Text", required |-> FALSE],
       [tag |-> "TransactTime", required |-> TRUE] >>

ListedTags(fields) == {fields[i].tag : i \in DOMAIN fields}
RequiredTags(fields) == {fields[i].tag : i \in {j \in DOMAIN fields : fields[j].required}}

RequiredFieldMissing == "Conditionally Required Field Missing"
PartyIdsErr == "Incorrect NumInGroup count for repeating group"

\* utils.QuickFixMessageCopyFields: the tags of the list are copied in the order of the
\* list; a required tag the source does not carry ends the copy with a reject
QuickFixMessageCopyFields(body, fields) ==
    IF RequiredTags(fields) \subseteq body
    THEN [err |-> NoErr, copied |-> body \cap ListedTags(fields)]
    ELSE [err |-> RequiredFieldMissing, copied |-> {}]

\* a handler that goes on to send after a failed copy
copyBodyIgnoringErr(body, fields, partyErr) ==
    [err |-> NoErr, copied |-> body \cap ListedTags(fields)]

\* the copy steps of a handler: QuickFixMessageCopyFields, then
\* QuickFixMessageCopyPartyIds; the first error is returned by the handler
copyBody(body, fields, partyErr) ==
    LET c == QuickFixMessageCopyFields(body, fields)
    IN IF c.err # NoErr THEN c
       ELSE IF partyErr # NoErr THEN [err |-> partyErr, copied |-> {}]
       ELSE c

\* the message handed to quickfix.SendToTarget with the body the handler has built
WithBody(sentMsgs, copied) ==
    IF sentMsgs = <<>> THEN <<>>
    ELSE << [to |-> sentMsgs[1].to, from |-> sentMsgs[1].from,
             BeginString |-> sentMsgs[1].BeginString, MsgType |-> sentMsgs[1].MsgType,
             ClOrdID |-> sentMsgs[1].ClOrdID, Body |-> copied] >>

\* how many tags of its list a source message may lack, and how far down the list
\* the tags it may lack are
MaxAbsent == 1
MaxAbsentIndex == 3

RECURSIVE Absent(_, _)
Absent(tags, k) ==
    IF k = 0 THEN {{}}
    ELSE Absent(tags, k - 1) \cup {S \cup {t} : S \in Absent(tags, k - 1), t \in tags}

\* the bodies of the source messages
Bodies(fields) ==
    LET droppable == {fields[i].tag : i \in {j \in DOMAIN fields : j <= MaxAbsentIndex}}
    IN {ListedTags(fields) \ S : S \in Absent(droppable, MaxAbsent)}

NewOrderSingleBodies == Bodies(NewOrderSingleFields)
ExecutionReportBodies == Bodies(ExecutionReportFields)

PartyErrs == {NoErr, PartyIdsErr}

InitTranslate == InitSpecBridge

\* Bridge.FromApp routing a client's NewOrderSingle that carries a body
TranslateNewOrderSingle ==
    \E sessionID \in Clients \cap loggedOn, clOrdId \in MsgClOrdIDs,
       body \in NewOrderSingleBodies, partyErr \in PartyErrs, sendErr \in SendErrs :
        LET order == [ClOrdID |-> clOrdId, Body |-> body]
            c == copyBody(body, NewOrderSingleFields, partyErr)
            r == onNewOrderSingleClient(B, order, sessionID, c.err, sendErr)
        IN /\ SetB(r.b)
           /\ sent' = WithBody(r.sent, c.copied)
           /\ last' = [op |-> "onNewOrderSingleClient", err |-> r.reject, msg |-> order]
           /\ UNCHANGED <<loggedOn, logonOrder, routed, submitter, validatorVars,
                          subscriptionVars, threadVars, commandVars>>

\* Bridge.FromApp routing an exchange's ExecutionReport that carries a body
TranslateExecutionReport ==
    \E sessionID \in Exchanges \cap loggedOn, clOrdId \in MsgClOrdIDs,
       body \in ExecutionReportBodies, partyErr \in PartyErrs, sendErr \in SendErrs :
        LET msg == [ClOrdID |-> clOrdId, Body |-> body]
            c == copyBody(body, ExecutionReportFields, partyErr)
            r == onExecutionReportExchange(B, msg, sessionID, c.err, sendErr)
        IN /\ SetB(r.b)
           /\ sent' = WithBody(r.sent, c.copied)
           /\ last' = [op |-> "onExecutionReportExchange", err |-> r.reject, msg |-> msg]
           /\ UNCHANGED <<loggedOn, logonOrder, routed, submitter, validatorVars,
                          subscriptionVars, threadVars, commandVars>>

NextTranslate ==
    \/ BridgeOnLogon
    \/ BridgeOnLogout
    \/ TranslateNewOrderSingle
    \/ TranslateExecutionReport

SpecTranslate == InitTranslate /\ [][NextTranslate]_vars

\* the field description list of the handler that ran last
LastFields ==
    IF last.op = "onNewOrderSingleClient" THEN NewOrderSingleFields ELSE ExecutionReportFields

\* the handler that ran last got as far as copying the fields
LastReachedCopy ==
    /\ last.op \in {"onNewOrderSingleClient", "onExecutionReportExchange"}
    /\ last.msg.ClOrdID # NoField
    /\ last.op = "onNewOrderSingleClient" => Len(connectedExchanges) > 0
    /\ last.op = "onExecutionReportExchange" => last.msg.ClOrdID \in DOMAIN orderMapping

\* C25: when the source message lacks a tag its handler's list marks required, the
\* handler returns a reject and sends nothing; when it lacks only optional tags the
\* message is forwarded with the listed tags the source carries, unless the copy of the
\* party ids or the send itself fails.
C25_RequiredTagRejectsOptionalOmitted ==
    LastReachedCopy =>
        IF ~(RequiredTags(LastFields) \subseteq last.msg.Body)
        THEN last.err = RequiredFieldMissing /\ sent = <<>>
        ELSE \/ /\ last.err = NoErr
                /\ sent # <<>>
                /\ sent[1].Body = last.msg.Body \cap ListedTags(LastFields)
             \/ /\ last.err \in {PartyIdsErr, "session not found"}
                /\ sent = <<>>

\* a report for a recorded ClOrdID that lacks the required OrderID was rejected and
\* nothing was sent
C25_Witness ==
    /\ LastReachedCopy
    /\ last.op = "onExecutionReportExchange"
    /\ "OrderID" \notin last.msg.Body
    /\ last.err = RequiredFieldMissing
    /\ sent = <<>>

----------------------------------------------------------------------------
\* C26: a wait that times out makes the pending operation fail with ConnectionTimeout
\* or ResponseTimeout, which is reported to the caller: the flow has returned with
\* that error, and the session is still connected.
C26_TimeoutReportedToCaller ==
    last.err \in {"ConnectionTimeout", "ResponseTimeout"}
    => /\ subPc = "returned"
       /\ last.err = "ResponseTimeout" => connected

----------------------------------------------------------------------------
\* SpecCommand: a request/response command (list security, new order). Execute starts
\* the session and waits for the logon on the channel Connected, sends its request and
\* waits for the response on the application's response channel. The session engine
\* calls ToAdmin with each admin message it is about to send, OnLogon and OnLogout as
\* the session logs on and off, and FromApp with the messages it receives.

MsgType_HEARTBEAT == "0"
MsgType_TEST_REQUEST == "1"
MsgType_REJECT == "3"
MsgType_LOGOUT == "5"
MsgType_LOGON == "A"
MsgType_SECURITY_LIST == "y"
OrdStatus_NEW == "0"
OrdStatus_PARTIALLY_FILLED == "1"
OrdStatus_REJECTED == "8"

\* zerolog's levels as numbers
LevelNum(level) == IF level = LevelTrace THEN -1 ELSE 0

\* the fields of a message as message.String() renders them, tag and value
Fields(message) ==
    {[tag |-> "MsgType", value |-> message.MsgType]}
        \cup {[tag |-> t, value |-> message.Header[t]] : t \in DOMAIN message.Header}

\* QuickFixAppMessageLogger.WriteField: the rendering of one field
WriteField(field) ==
    IF field.tag = "Password" THEN [tag |-> field.tag, value |-> "<redacted>"] ELSE field

\* QuickFixAppMessageLogger.LogMessage: the records written for a message, none when
\* the logger's level is above the level asked for; the record is the message's raw
\* string with the separators replaced
LogMessage(loggerLevel, level, message, sending) ==
    IF LevelNum(loggerLevel) > LevelNum(level) THEN {}
    ELSE {[direction |-> IF sending THEN "->" ELSE "<-", fields |-> Fields(message)]}

\* a ToAdmin that sets the settings in the header of every admin message, empty or not
ToAdminInjectingAlways(message, sets) ==
    [message EXCEPT !.Header =
        MapSet(MapSet(message.Header, "Username", sets.Username), "Password", sets.Password)]

\* SecurityList.ToAdmin, MarketDataRequest.ToAdmin and MarketDataValidator.ToAdmin up to
\* the call of LogMessage: the message as it leaves
ToAdmin(message, sets) ==
    IF message.MsgType = MsgType_LOGON
    THEN LET withUser ==
                 IF sets.Username # NoField /\ sets.Username # ""
                 THEN MapSet(message.Header, "Username", sets.Username)
                 ELSE message.Header
             withPassword ==
                 IF sets.Password # NoField /\ sets.Password # ""
                 THEN MapSet(withUser, "Password", sets.Password)
                 ELSE withUser
         IN [message EXCEPT !.Header = withPassword]
    ELSE message

\* the end of the new-order Execute: the error it returns for a response
OrderResult(response) ==
    LET text == IF response.Text = NoField THEN "" ELSE response.Text
    IN IF response.MsgType = MsgType_REJECT THEN "Fix"
       ELSE IF response.OrdStatus = OrdStatus_NEW THEN NoErr
       ELSE IF response.OrdStatus = OrdStatus_REJECTED
       THEN IF text # "" THEN "FixOrderRejected" ELSE NoErr
       ELSE IF text # "" THEN "FixOrderStatusUnknown" ELSE NoErr

\* close(channel)
Close(chans, name) == [chans EXCEPT ![name].closed = TRUE]

\* the channel the command's Execute receives its response on
ResponseChans == IF command = "list security" THEN {"FromAppMessages"}
                 ELSE {"FromAppChan", "FromAdminChan"}

\* how many messages a response channel buffers
ChanCapacity == 1

SettingValues(value) == {NoField, "", value}
AdminHeader == [t \in {"SenderCompID"} |-> "client"]
OtherAdminMsgTypes == {MsgType_HEARTBEAT, MsgType_TEST_REQUEST, MsgType_LOGOUT}
OrderResponses ==
    [MsgType : {MsgType_EXECUTION_REPORT}, 
     OrdStatus : {OrdStatus_NEW, OrdStatus_PARTIALLY_FILLED, OrdStatus_REJECTED},
     Text : {NoField, "", "price out of range"}]
        \cup [MsgType : {MsgType_REJECT}, OrdStatus : {NoField}, Text : {NoField, "bad tag"}]

commandFrame ==
    <<validatorVars, bridgeVars, threadVars, driver, subPc, configuredSymbols, optionSymbol,
      SecurityListResponse, utilVars, lifecycleVars>>

InitSpecCommand ==
    /\ secList = EmptyMap
    /\ metricCrossedUpdates = EmptyMap
    /\ metricBookCrossed = EmptyMap
    /\ metricErrors = EmptyMap
    /\ connected = FALSE
    /\ subscribing = FALSE
    /\ InitBridge
    /\ InitThreads
    /\ InitSubscription
    /\ command \in {"list security", "new order"}
    /\ cmdPc = "waitLogon"
    /\ channels = [c \in AllChans |-> ChanOpen]
    /\ session = "created"
    /\ settings \in [Username : SettingValues("trader"), Password : SettingValues("s3cret")]
    /\ logLevel \in {LevelTrace, LevelDebug}
    /\ toAdmin = <<>>
    /\ logRecords = {}
    /\ InitUtil
    /\ InitLifecycle
    /\ last = [op |-> "Start", err |-> NoErr, recv |-> NoField]

\* the engine calls ToAdmin with an admin message it is about to send: the Logon that
\* opens the session, or a later Heartbeat, TestRequest or Logout
CallToAdmin ==
    \E msgType \in {MsgType_LOGON} \cup OtherAdminMsgTypes :
        /\ IF msgType = MsgType_LOGON THEN session = "created" ELSE session = "loggedOn"
        /\ LET message == [MsgType |-> msgType, Header |-> AdminHeader]
               out == ToAdmin(message, settings)
           IN /\ toAdmin' = <<[before |-> message, after |-> out]>>
              /\ logRecords' = logRecords \cup LogMessage(logLevel, LevelTrace, out, TRUE)
        /\ session' = IF msgType = MsgType_LOGON THEN "logonSent"
                      ELSE IF msgType = MsgType_LOGOUT THEN "logoutSent" ELSE session
        /\ UNCHANGED <<commandFrame, responseMessage, outbox, last, command, cmdPc, channels,
                       settings, logLevel>>

\* OnLogon: the session id is sent on Connected, where Execute receives it
CommandOnLogon ==
    /\ session = "logonSent"
    /\ cmdPc = "waitLogon"
    /\ ~channels["Connected"].closed
    /\ session' = "loggedOn"
    /\ cmdPc' = "send"
    /\ last' = [op |-> "OnLogon", err |-> NoErr, recv |-> "value"]
    /\ UNCHANGED <<commandFrame, responseMessage, outbox, command, channels, settings,
                   logLevel, toAdmin, logRecords>>

\* SecurityList.OnLogout: the session has logged out or was disconnected, the
\* channels are closed
SecurityListOnLogout ==
    /\ command = "list security"
    /\ session \in {"logonSent", "loggedOn", "logoutSent"}
    /\ session' = "loggedOut"
    /\ channels' = Close(Close(channels, "Connected"), "FromAppMessages")
    /\ last' = [op |-> "OnLogout", err |-> NoErr, recv |-> NoField]
    /\ UNCHANGED <<commandFrame, responseMessage, outbox, command, cmdPc, settings, logLevel,
                   toAdmin, logRecords>>

\* NewOrder.OnLogout
NewOrderOnLogout ==
    /\ command = "new order"
    /\ session \in {"logonSent", "loggedOn", "logoutSent"}
    /\ session' = "loggedOut"
    /\ channels' = Close(Close(Close(channels, "Connected"), "FromAppChan"), "FromAdminChan")
    /\ last' = [op |-> "OnLogout", err |-> NoErr, recv |-> NoField]
    /\ UNCHANGED <<commandFrame, responseMessage, outbox, command, cmdPc, settings, logLevel,
                   toAdmin, logRecords>>

\* Execute's wait for the connection ends on time.After
CommandConnectionTimeout ==
    /\ cmdPc = "waitLogon"
    /\ cmdPc' = "returned"
    /\ last' = [op |-> "Execute", err |-> "ConnectionTimeout", recv |-> "timeout"]
    /\ UNCHANGED <<commandFrame, responseMessage, outbox, command, channels, session, settings,
                   logLevel, toAdmin, logRecords>>

\* Execute's receive on Connected finds the channel closed
ConnectedClosed ==
    /\ cmdPc = "waitLogon"
    /\ channels["Connected"].closed
    /\ cmdPc' = "returned"
    /\ last' = [op |-> "Execute", err |-> "FixLogout", recv |-> "closed"]
    /\ UNCHANGED <<commandFrame, responseMessage, outbox, command, channels, session, settings,
                   logLevel, toAdmin, logRecords>>

\* Execute builds its request and sends it; a send error is returned
SendRequest ==
    /\ cmdPc = "send"
    /\ \E sendErr \in SendErrs :
          /\ IF sendErr = NoErr
             THEN /\ outbox' = Append(outbox,
                                 [MsgType |-> IF command = "list security"
                                              THEN MsgType_SECURITY_LIST_REQUEST
                                              ELSE MsgType_ORDER_SINGLE])
                  /\ cmdPc' = "waitResponse"
             ELSE /\ outbox' = outbox
                  /\ cmdPc' = "returned"
          /\ last' = [op |-> "Execute", err |-> sendErr, recv |-> NoField]
    /\ UNCHANGED <<commandFrame, responseMessage, command, channels, session, settings,
                   logLevel, toAdmin, logRecords>>

\* SecurityList.FromApp with a SecurityList: the message is sent to FromAppMessages
SecurityListFromApp ==
    /\ command = "list security"
    /\ session = "loggedOn"
    /\ cmdPc = "waitResponse"
    /\ Len(channels["FromAppMessages"].queue) < ChanCapacity
    /\ channels' = [channels EXCEPT !["FromAppMessages"].queue =
                       Append(@, [MsgType |-> MsgType_SECURITY_LIST])]
    /\ last' = [op |-> "FromApp", err |-> NoErr, recv |-> NoField]
    /\ UNCHANGED <<commandFrame, responseMessage, outbox, command, cmdPc, session, settings,
                   logLevel, toAdmin, logRecords>>

\* NewOrder.FromApp with an ExecutionReport, NewOrder.FromAdmin with a Reject
NewOrderFromApp ==
    /\ command = "new order"
    /\ session = "loggedOn"
    /\ cmdPc = "waitResponse"
    /\ \E response \in OrderResponses :
          LET name == IF response.MsgType = MsgType_REJECT THEN "FromAdminChan"
                      ELSE "FromAppChan"
          IN /\ Len(channels[name].queue) < ChanCapacity
             /\ channels' = [channels EXCEPT ![name].queue = Append(@, response)]
    /\ last' = [op |-> "FromApp", err |-> NoErr, recv |-> NoField]
    /\ UNCHANGED <<commandFrame, responseMessage, outbox, command, cmdPc, session, settings,
                   logLevel, toAdmin, logRecords>>

\* Execute's receive on a response channel takes a message: the list command prints it
\* and returns nil, the order command returns what the response's OrdStatus and Text
\* make of it
ReceiveResponse ==
    /\ cmdPc = "waitResponse"
    /\ \E name \in ResponseChans :
          /\ channels[name].queue # <<>>
          /\ LET message == Head(channels[name].queue)
             IN /\ channels' = [channels EXCEPT ![name].queue = Tail(@)]
                /\ responseMessage' = <<message>>
                /\ last' = [op |-> "Execute",
                            err |-> IF command = "list security" THEN NoErr
                                    ELSE OrderResult(message),
                            recv |-> "value"]
    /\ cmdPc' = "returned"
    /\ UNCHANGED <<commandFrame, outbox, command, session, settings, logLevel, toAdmin,
                   logRecords>>

\* Execute's receive on a response channel finds it closed and empty. The order
\* command tests the receive's second value and returns FixLogout; the list command
\* does not: it goes on with the nil message the receive yields, which
\* WriteMessageBodyAsTable dereferences.
ResponseClosed ==
    /\ cmdPc = "waitResponse"
    /\ \E name \in ResponseChans :
          /\ channels[name].closed
          /\ channels[name].queue = <<>>
    /\ IF command = "list security"
       THEN /\ cmdPc' = "panicked"
            /\ last' = [op |-> "Execute", err |-> "nil pointer dereference",
                        recv |-> "closed"]
       ELSE /\ cmdPc' = "returned"
            /\ last' = [op |-> "Execute", err |-> "FixLogout", recv |-> "closed"]
    /\ UNCHANGED <<commandFrame, responseMessage, outbox, command, channels, session, settings,
                   logLevel, toAdmin, logRecords>>

\* Execute's wait for the response ends on time.After
CommandResponseTimeout ==
    /\ cmdPc = "waitResponse"
    /\ cmdPc' = "returned"
    /\ last' = [op |-> "Execute", err |-> "ResponseTimeout", recv |-> "timeout"]
    /\ UNCHANGED <<commandFrame, responseMessage, outbox, command, channels, session, settings,
                   logLevel, toAdmin, logRecords>>

NextCommand ==
    \/ CallToAdmin
    \/ CommandOnLogon
    \/ SecurityListOnLogout
    \/ NewOrderOnLogout
    \/ CommandConnectionTimeout
    \/ ConnectedClosed
    \/ SendRequest
    \/ SecurityListFromApp
    \/ NewOrderFromApp
    \/ ReceiveResponse
    \/ ResponseClosed
    \/ CommandResponseTimeout

SpecCommand == InitSpecCommand /\ [][NextCommand]_vars

\* C27: a receive that finds its channel closed by the logout makes Execute return
\* FixLogout, in the wait for the logon and in the wait for the response, in every
\* command.
C27_ClosedChannelYieldsFixLogout ==
    (last.op = "Execute" /\ last.recv = "closed")
    => /\ cmdPc = "returned"
       /\ last.err = "FixLogout"

\* C28: no record logged for a message holds the session's Password: every field of
\* a record is rendered as WriteField renders it, the Logon logged after ToAdmin has
\* set the credentials included.
C28_PasswordNeverLogged ==
    \A record \in logRecords : \A field \in record.fields :
        /\ field = WriteField(field)
        /\ (settings.Password # NoField /\ settings.Password # "")
               => field.value # settings.Password

\* the settings ToAdmin finds non-empty
Injected ==
    {t \in {"Username", "Password"} : settings[t] # NoField /\ settings[t] # ""}

\* C29: ToAdmin sets the non-empty Username and the non-empty Password of the settings
\* in the header of an outbound Logon and leaves the rest of the header as it was; a
\* setting that is empty or absent sets nothing, and an admin message other than Logon
\* leaves as it came.
C29_CredentialsInjectedOnLogonOnly ==
    toAdmin # <<>> =>
        LET before == toAdmin[1].before
            after == toAdmin[1].after
        IN IF before.MsgType = MsgType_LOGON
           THEN /\ after.MsgType = MsgType_LOGON
                /\ DOMAIN after.Header = DOMAIN before.Header \cup Injected
                /\ \A t \in Injected : after.Header[t] = settings[t]
                /\ \A t \in DOMAIN before.Header \ Injected : after.Header[t] = before.Header[t]
           ELSE after = before

\* a Logon left with the Username of the settings but without a Password, the Password
\* setting being empty
C29_Witness ==
    /\ toAdmin # <<>>
    /\ toAdmin[1].before.MsgType = MsgType_LOGON
    /\ settings.Password = ""
    /\ settings.Username = "trader"
    /\ toAdmin[1].after.Header["Username"] = "trader"
    /\ "Password" \notin DOMAIN toAdmin[1].after.Header

\* C30: the new-order Execute returns FixOrderRejected for a response whose OrdStatus
\* is Rejected, whatever its Text.
C30_RejectedOrderReturnsError ==
    (/\ command = "new order"
     /\ last.op = "Execute"
     /\ last.recv = "value"
     /\ responseMessage # <<>>
     /\ responseMessage[1].MsgType = MsgType_EXECUTION_REPORT
     /\ responseMessage[1].OrdStatus = OrdStatus_REJECTED)
    => last.err = "FixOrderRejected"

----------------------------------------------------------------------------
\* SpecUtils: the helpers of the commands, each applied once to inputs drawn at the
\* start: WriteMessageBodyAsTable to a message and the dictionaries of the
\* application, the choice of the timeout to the --timeout option and the
\* SocketTimeout of the configuration.

\* the tags of the rendered messages: 9999 is a tag no dictionary holds
Tag ==
    [CheckSum |-> 10, MsgType |-> 35, Side |-> 54, Symbol |-> 55, NoPartyIDs |-> 453,
     Custom |-> 9999]

tagFilter == {1724, 453, 447, 448, 452, 2376}

\* the transport dictionary: the tags of the header
TransportDict == [Header |-> {Tag.MsgType}]

\* the application dictionary: the field types by tag, each with its name and the
\* descriptions of its enum values, and the tags of the trailer
AppDict ==
    [FieldTypeByTag |->
        [t \in {Tag.Side, Tag.Symbol} |->
            IF t = Tag.Side
            THEN [Name |-> "Side", Enums |-> [v \in {"1"} |-> "BUY"]]
            ELSE [Name |-> "Symbol", Enums |-> [v \in {} |-> ""]]],
     Trailer |-> {Tag.CheckSum}]

\* one field of message.String() in WriteMessageBodyAsTable's loop: the line appended
\* to the table if any, and whether the field stops the call with a nil dereference
\* (tagField.Enums with the nil tagField of a tag FieldTypeByTag does not hold)
TableLine(field, transportDict, appDict) ==
    IF field.tag \in tagFilter THEN [line |-> <<>>, panic |-> FALSE]
    ELSE IF transportDict # NoDict /\ field.tag \in transportDict.Header
    THEN [line |-> <<>>, panic |-> FALSE]
    ELSE IF appDict = NoDict
    THEN [line |-> <<[tag |-> field.tag, description |-> "<unknown>",
                      value |-> field.value, enum |-> NoField]>>,
          panic |-> FALSE]
    ELSE IF field.tag \in appDict.Trailer THEN [line |-> <<>>, panic |-> FALSE]
    ELSE IF field.tag \notin DOMAIN appDict.FieldTypeByTag
    THEN [line |-> <<>>, panic |-> TRUE]
    ELSE LET tagField == appDict.FieldTypeByTag[field.tag]
         IN [line |-> <<[tag |-> field.tag, description |-> tagField.Name,
                         value |-> field.value,
                         enum |-> IF field.value \in DOMAIN tagField.Enums
                                  THEN tagField.Enums[field.value] ELSE NoField]>>,
             panic |-> FALSE]

RECURSIVE TableLines(_, _, _)
TableLines(fields, transportDict, appDict) ==
    IF fields = <<>> THEN [lines |-> <<>>, panic |-> FALSE]
    ELSE LET first == TableLine(Head(fields), transportDict, appDict)
         IN IF first.panic THEN [lines |-> <<>>, panic |-> TRUE]
            ELSE LET rest == TableLines(Tail(fields), transportDict, appDict)
                 IN [lines |-> first.line \o rest.lines, panic |-> rest.panic]

\* QuickFixAppMessageLogger.WriteMessageBodyAsTable: the loop runs over the fields of
\* the message but the last one; table.Render writes the lines when the loop has ended
WriteMessageBodyAsTable(message, transportDict, appDict) ==
    LET r == TableLines(SubSeq(message, 1, Len(message) - 1), transportDict, appDict)
    IN IF r.panic THEN [lines |-> <<>>, err |-> "nil pointer dereference"]
       ELSE [lines |-> r.lines, err |-> NoErr]

DefaultTimeout == 5

\* the SocketTimeout taken before the option
buildTimeoutDurationSocketFirst(options, ctxInitiator) ==
    IF ctxInitiator.SocketTimeout # 0 THEN ctxInitiator.SocketTimeout
    ELSE IF options.Timeout # 0 THEN options.Timeout
    ELSE DefaultTimeout

\* buildTimeoutDuration, and the same choice at the start of the Execute of the list
\* security and new order commands
buildTimeoutDuration(options, ctxInitiator) ==
    IF options.Timeout # 0 THEN options.Timeout
    ELSE IF ctxInitiator.SocketTimeout # 0 THEN ctxInitiator.SocketTimeout
    ELSE DefaultTimeout

\* how many body fields a rendered message has, and the longest timeout given
MaxFields == 2
MaxTimeout == 2

BodyFields ==
    {[tag |-> Tag.Symbol, value |-> "ABC"], [tag |-> Tag.Side, value |-> "1"],
     [tag |-> Tag.Side, value |-> "Z"], [tag |-> Tag.Custom, value |-> "x"],
     [tag |-> Tag.NoPartyIDs, value |-> "1"]}

\* the messages rendered: MsgType, the body fields, CheckSum
RenderedMessages ==
    {<<[tag |-> Tag.MsgType, value |-> MsgType_SECURITY_LIST]>> \o body
         \o <<[tag |-> Tag.CheckSum, value |-> "000"]>> :
     body \in UNION {[1..n -> BodyFields] : n \in 0..MaxFields}}

Durations == (0 - 1)..MaxTimeout

InitSpecUtils ==
    /\ secList = EmptyMap
    /\ metricCrossedUpdates = EmptyMap
    /\ metricBookCrossed = EmptyMap
    /\ metricErrors = EmptyMap
    /\ connected = FALSE
    /\ subscribing = FALSE
    /\ InitBridge
    /\ InitThreads
    /\ InitSubscription
    /\ command = "none"
    /\ cmdPc = "idle"
    /\ channels = [c \in AllChans |-> ChanOpen]
    /\ session = "created"
    /\ settings = [Username |-> NoField, Password |-> NoField]
    /\ logLevel = LevelDebug
    /\ toAdmin = <<>>
    /\ logRecords = {}
    /\ rendering \in [message : RenderedMessages,
                      TransportDataDictionary : {NoDict, TransportDict},
                      AppDataDictionary : {NoDict, AppDict}]
    /\ table = NoValue
    /\ timeouts \in [Timeout : Durations, SocketTimeout : Durations]
    /\ timeout = NoValue
    /\ InitLifecycle
    /\ last = [op |-> "Start", err |-> NoErr]

utilFrame ==
    <<validatorVars, bridgeVars, threadVars, subscriptionVars, command, cmdPc, channels,
      session, settings, logLevel, toAdmin, logRecords, rendering, timeouts, lifecycleVars>>

\* the command chooses its timeout
CallBuildTimeoutDuration ==
    /\ timeout = NoValue
    /\ timeout' = <<buildTimeoutDuration([Timeout |-> timeouts.Timeout],
                                         [SocketTimeout |-> timeouts.SocketTimeout])>>
    /\ last' = [op |-> "buildTimeoutDuration", err |-> NoErr]
    /\ UNCHANGED <<utilFrame, table>>

\* the command renders the response it has received
CallWriteMessageBodyAsTable ==
    /\ table = NoValue
    /\ LET r == WriteMessageBodyAsTable(rendering.message,
                                        rendering.TransportDataDictionary,
                                        rendering.AppDataDictionary)
       IN /\ table' = <<r.lines>>
          /\ last' = [op |-> "WriteMessageBodyAsTable", err |-> r.err]
    /\ UNCHANGED <<utilFrame, timeout>>

NextUtils ==
    \/ CallBuildTimeoutDuration
    \/ CallWriteMessageBodyAsTable

SpecUtils == InitSpecUtils /\ [][NextUtils]_vars

\* the body fields of the rendered message whose tag the application dictionary does
\* not hold
UnknownBodyFields ==
    {i \in 2..(Len(rendering.message) - 1) :
        /\ rendering.message[i].tag \notin tagFilter
        /\ rendering.AppDataDictionary # NoDict
        /\ rendering.message[i].tag \notin DOMAIN rendering.AppDataDictionary.FieldTypeByTag}

\* C31: when a message with a body tag that the application dictionary does not hold
\* has been rendered, the rendering ended without error and the table has a line with
\* the tag, the description <unknown> and the raw value.
C31_UnknownTagRendered ==
    (table # NoValue /\ last.op = "WriteMessageBodyAsTable")
    => \A i \in UnknownBodyFields :
          /\ last.err = NoErr
          /\ \E k \in DOMAIN table[1] :
                /\ table[1][k].tag = rendering.message[i].tag
                /\ table[1][k].description = "<unknown>"
                /\ table[1][k].value = rendering.message[i].value

\* C32: the timeout is the --timeout option when it is not zero, else the
\* SocketTimeout of the configuration when it is not zero, else 5 seconds.
C32_TimeoutPrecedence ==
    timeout # NoValue =>
        timeout[1] = IF timeouts.Timeout # 0 THEN timeouts.Timeout
                     ELSE IF timeouts.SocketTimeout # 0 THEN timeouts.SocketTimeout
                     ELSE 5

\* both the option and the SocketTimeout were given and differ: the option was chosen
C32_Witness ==
    /\ timeout # NoValue
    /\ timeouts.Timeout = 1
    /\ timeouts.SocketTimeout = 2
    /\ timeout[1] = 1

----------------------------------------------------------------------------
\* SpecLifecycle: the channels of an application over the life of its session. The
\* session's goroutine runs the callbacks one after the other (OnLogon, OnLogout,
\* FromApp, FromAdmin); the session logs on again after a logout; the command's
\* goroutine receives from the channels until it calls Stop. A send on a channel is a
\* step of its own: it ends when the channel has room or a receiver, and panics when
\* the channel is closed.

RequestResponseApps == {"MarketDataRequest", "SecurityList"}
Apps == RequestResponseApps \cup {"MarketDataValidator"}

\* make(chan ..., 1) for FromAppMessages, make(chan ...) for the others
Capacity(c) == IF c = "FromAppMessages" THEN ChanCapacity ELSE 0

NotPanicked == panicked = NoErr

\* the callback goes on to send on channel c
SendOn(c, then) == [pc |-> "send", chan |-> c, then |-> then, late |-> stopPc = "done"]

lifeFrame ==
    <<validatorVars, bridgeVars, threadVars, subscriptionVars, command, cmdPc, settings,
      logLevel, toAdmin, logRecords, utilVars>>

InitSpecLifecycle ==
    /\ secList = EmptyMap
    /\ metricCrossedUpdates = EmptyMap
    /\ metricBookCrossed = EmptyMap
    /\ metricErrors = EmptyMap
    /\ connected = FALSE
    /\ subscribing = FALSE
    /\ InitBridge
    /\ InitThreads
    /\ InitSubscription
    /\ command = "none"
    /\ cmdPc = "idle"
    /\ channels = [c \in AllChans |-> ChanOpen]
    /\ session = "created"
    /\ settings = [Username |-> NoField, Password |-> NoField]
    /\ logLevel = LevelDebug
    /\ toAdmin = <<>>
    /\ logRecords = {}
    /\ InitUtil
    /\ app \in Apps
    /\ exitOnDisconnect \in IF app = "MarketDataValidator" THEN BOOLEAN ELSE {FALSE}
    /\ stopped = FALSE
    /\ stopPc = "idle"
    /\ callback = CallbackIdle
    /\ panicked = NoErr
    /\ last = [op |-> "New", err |-> NoErr]

\* OnLogon, at the first logon and at each later one: the session id is sent on
\* Connected, or "Connected" on AppInfoChan
LifecycleOnLogon ==
    /\ NotPanicked
    /\ callback.pc = "idle"
    /\ session \in {"created", "loggedOut"}
    /\ session' = "loggedOn"
    /\ callback' = SendOn(IF app = "MarketDataValidator" THEN "AppInfoChan" ELSE "Connected",
                          "done")
    /\ last' = [op |-> "OnLogon", err |-> NoErr]
    /\ UNCHANGED <<lifeFrame, channels, app, exitOnDisconnect, stopped, stopPc, panicked>>

\* OnLogout. MarketDataRequest and SecurityList close Connected and FromAppMessages;
\* MarketDataValidator returns when stopped, else sends "Disconnected" on AppInfoChan
\* and closes it under ExitOnDisconnect.
LifecycleOnLogout ==
    /\ NotPanicked
    /\ callback.pc = "idle"
    /\ session = "loggedOn"
    /\ session' = "loggedOut"
    /\ IF app \in RequestResponseApps
       THEN /\ IF channels["Connected"].closed \/ channels["FromAppMessages"].closed
               THEN /\ panicked' = "close of closed channel"
                    /\ channels' = channels
               ELSE /\ panicked' = panicked
                    /\ channels' = Close(Close(channels, "Connected"), "FromAppMessages")
            /\ callback' = callback
       ELSE /\ callback' = IF stopped THEN callback
                           ELSE SendOn("AppInfoChan",
                                       IF exitOnDisconnect THEN "close" ELSE "done")
            /\ UNCHANGED <<channels, panicked>>
    /\ last' = [op |-> "OnLogout", err |-> NoErr]
    /\ UNCHANGED <<lifeFrame, app, exitOnDisconnect, stopped, stopPc>>

\* FromApp with a message the application hands on: a market data message or a
\* SecurityList for FromAppMessages, sent unless the application is stopped; a
\* BusinessMessageReject for the validator's AppInfoChan
LifecycleFromApp ==
    /\ NotPanicked
    /\ callback.pc = "idle"
    /\ session = "loggedOn"
    /\ callback' = IF app = "MarketDataValidator" THEN SendOn("AppInfoChan", "done")
                   ELSE IF stopped THEN callback
                   ELSE SendOn("FromAppMessages", "done")
    /\ last' = [op |-> "FromApp", err |-> NoErr]
    /\ UNCHANGED <<lifeFrame, channels, session, app, exitOnDisconnect, stopped, stopPc,
                   panicked>>

\* FromAdmin with a Reject: SecurityList sends it on FromAppMessages unless it is
\* stopped, MarketDataRequest sends it in any case
LifecycleFromAdminReject ==
    /\ NotPanicked
    /\ callback.pc = "idle"
    /\ session = "loggedOn"
    /\ app \in RequestResponseApps
    /\ callback' = IF app = "SecurityList" /\ stopped THEN callback
                   ELSE SendOn("FromAppMessages", "done")
    /\ last' = [op |-> "FromAdmin", err |-> NoErr]
    /\ UNCHANGED <<lifeFrame, channels, session, app, exitOnDisconnect, stopped, stopPc,
                   panicked>>

\* the send of the running callback ends: with a panic on a closed channel, in the
\* buffer when it has room, or in the hands of the command's goroutine, which receives
\* until it calls Stop
CompleteSend ==
    /\ NotPanicked
    /\ callback.pc = "send"
    /\ LET c == callback.chan
       IN /\ \/ channels[c].closed
             \/ Len(channels[c].queue) < Capacity(c)
             \/ Capacity(c) = 0 /\ stopPc = "idle"
          /\ IF channels[c].closed
             THEN /\ panicked' = "send on closed channel"
                  /\ UNCHANGED <<channels, callback>>
             ELSE /\ panicked' = panicked
                  /\ channels' = IF Capacity(c) > 0
                                 THEN [channels EXCEPT ![c].queue = Append(@, "message")]
                                 ELSE channels
                  /\ callback' = IF callback.then = "close"
                                 THEN [callback EXCEPT !.pc = "close"]
                                 ELSE CallbackIdle
    /\ last' = [op |-> "send", err |-> panicked']
    /\ UNCHANGED <<lifeFrame, session, app, exitOnDisconnect, stopped, stopPc>>

\* the close(app.AppInfoChan) that ends the validator's OnLogout
CompleteClose ==
    /\ NotPanicked
    /\ callback.pc = "close"
    /\ IF channels[callback.chan].closed
       THEN /\ panicked' = "close of closed channel"
            /\ UNCHANGED <<channels, callback>>
       ELSE /\ panicked' = panicked
            /\ channels' = Close(channels, callback.chan)
            /\ callback' = CallbackIdle
    /\ last' = [op |-> "close", err |-> panicked']
    /\ UNCHANGED <<lifeFrame, session, app, exitOnDisconnect, stopped, stopPc>>

\* the command's goroutine takes a message from FromAppMessages
ConsumerReceive ==
    /\ NotPanicked
    /\ stopPc = "idle"
    /\ channels["FromAppMessages"].queue # <<>>
    /\ channels' = [channels EXCEPT !["FromAppMessages"].queue = Tail(@)]
    /\ last' = [op |-> "receive", err |-> NoErr]
    /\ UNCHANGED <<lifeFrame, session, lifecycleVars>>

\* Stop sets stopped; the validator's closes AppInfoChan and returns, the others go
\* on to empty FromAppMessages
StopBegin ==
    /\ NotPanicked
    /\ stopPc = "idle"
    /\ stopped' = TRUE
    /\ IF app = "MarketDataValidator"
       THEN /\ stopPc' = "done"
            /\ IF channels["AppInfoChan"].closed
               THEN /\ panicked' = "close of closed channel"
                    /\ channels' = channels
               ELSE /\ panicked' = panicked
                    /\ channels' = Close(channels, "AppInfoChan")
       ELSE /\ stopPc' = "drain"
            /\ UNCHANGED <<channels, panicked>>
    /\ last' = [op |-> "Stop", err |-> panicked']
    /\ UNCHANGED <<lifeFrame, session, app, exitOnDisconnect, callback>>

\* Stop's loop takes a message from FromAppMessages
StopDrain ==
    /\ NotPanicked
    /\ stopPc = "drain"
    /\ channels["FromAppMessages"].queue # <<>>
    /\ channels' = [channels EXCEPT !["FromAppMessages"].queue = Tail(@)]
    /\ last' = [op |-> "Stop", err |-> NoErr]
    /\ UNCHANGED <<lifeFrame, session, lifecycleVars>>

\* Stop's loop finds FromAppMessages empty and Stop returns
StopReturn ==
    /\ NotPanicked
    /\ stopPc = "drain"
    /\ channels["FromAppMessages"].queue = <<>>
    /\ stopPc' = "done"
    /\ last' = [op |-> "Stop", err |-> NoErr]
    /\ UNCHANGED <<lifeFrame, session, channels, app, exitOnDisconnect, stopped, callback,
                   panicked>>

NextLifecycle ==
    \/ LifecycleOnLogon
    \/ LifecycleOnLogout
    \/ LifecycleFromApp
    \/ LifecycleFromAdminReject
    \/ CompleteSend
    \/ CompleteClose
    \/ ConsumerReceive
    \/ StopBegin
    \/ StopDrain
    \/ StopReturn

SpecLifecycle == InitSpecLifecycle /\ [][NextLifecycle]_vars

\* C33: a callback that started after Stop has returned does not block on
\* FromAppMessages: it is never about to send on the channel when the channel is open
\* and full, with nobody left to receive.
C33_NoCallbackBlocksAfterStop ==
    ~(/\ app \in RequestResponseApps
      /\ stopPc = "done"
      /\ callback.pc = "send"
      /\ callback.late
      /\ callback.chan = "FromAppMessages"
      /\ ~channels["FromAppMessages"].closed
      /\ Len(channels["FromAppMessages"].queue) >= Capacity("FromAppMessages"))

\* C34: in MarketDataRequest and SecurityList no channel is closed a second time and
\* nothing is sent on a closed channel: the runtime never panics over Connected or
\* FromAppMessages.
C34_ChannelsClosedOnceNoSendAfter ==
    app \in RequestResponseApps => panicked = NoErr

\* C35: the validator's AppInfoChan is not closed a second time and nothing is sent on
\* it once it is closed.
C35_AppInfoChanClosedOnce ==
    app = "MarketDataValidator" => panicked = NoErr

\* C36: the validator's FromApp never blocks forever on a SecurityList: the message
\* is not left waiting on SecurityListResponse once loadSymbolsFromFix will no more
\* receive from it (symbols were configured, or it has timed out or completed) and the
\* program goes on to subscribe.
C36_SecurityListAlwaysHandedOff ==
    ~(/\ SecurityListResponse # <<>>
      /\ subPc \in {"build", "subscribed"})

\* C37: a client order-flow message the bridge rejects leaves the correlation table
\* as it was: a step of a client-side handler that returns a reject does not change
\* orderMapping.
C37_RejectedLeavesMappingUnchanged ==
    [][(/\ last'.op \in {"onNewOrderSingleClient", "forwardClientMessageToExchange"}
        /\ last'.err # NoErr)
       => orderMapping' = orderMapping]_vars

\* C38: in every reachable state of a book typesVolume[t] is the number of orders of
\* type t and sidesVolume[s] the number of orders of side s, and no counter is
\* negative.
C38_CountersMatchBook ==
    /\ \A t \in OrdTypes : MapGet(Book.typesVolume, t) = CountType(Book, t)
    /\ \A sd \in {MDEntryType_BID, MDEntryType_OFFER} :
          MapGet(Book.sidesVolume, sd) = CountSide(Book, sd)
    /\ \A t \in DOMAIN Book.typesVolume : Book.typesVolume[t] >= 0
    /\ \A sd \in DOMAIN Book.sidesVolume : Book.sidesVolume[sd] >= 0

\* C39: the crossed state of a security is reset with its book. No security has
\* book_crossed = 1 while it has no book, and when subscribe has created the books
\* anew the gauge of each security equals the crossed state of its new book.
C39_CrossedStateResetWithBooks ==
    /\ \A s \in DOMAIN metricBookCrossed :
          metricBookCrossed[s] = 1 => s \in DOMAIN secList
    /\ last.op = "subscribe"
       => \A s \in DOMAIN secList :
             BookCrossedGauge(s) = IF secList[s].isCrossed THEN 1 ELSE 0

----------------------------------------------------------------------------
\* SpecSecurities: the validator subscribed to two securities, fed with incremental
\* refreshes whose entries each carry their own Symbol.

\* the entries one incremental refresh carries at most
MaxSymbolEntries == 2

OtherSecurity == "XYZ"
Securities == {BookSecurity, OtherSecurity}

\* complete entries for a limit bid at one price, for either security
SymbolEntries ==
    {[BaseEntry EXCEPT !.OrderID = id, !.MDUpdateAction = a, !.Symbol = s] :
        id \in OrderIds, a \in UpdateActions, s \in Securities}

SymbolMsgs ==
    {[NoMDEntries |-> <<es>>] :
        es \in UNION {[1..k -> SymbolEntries] : k \in 1..MaxSymbolEntries}}

\* the validator logged on and subscribed to both securities
InitSecurities ==
    /\ secList = createSecurityList(Securities)
    /\ metricCrossedUpdates = [s \in Securities |-> 0]
    /\ metricBookCrossed = EmptyMap
    /\ metricErrors = [s \in Securities |->
                          [e \in {ErrOrderNotFound, ErrOrderAlreadyExists} |-> 0]]
    /\ connected = TRUE
    /\ subscribing = FALSE
    /\ last = [op |-> "subscribe", err |-> NoErr, msg |-> [NoMDEntries |-> NoValue]]
    /\ InitBridge
    /\ InitThreads
    /\ InitCommand
    /\ InitSubscription

\* MarketDataValidator.FromApp routing a MarketDataIncrementalRefresh
FromAppSymbolRefresh ==
    /\ connected
    /\ CountersBelowCap
    /\ \A s \in DOMAIN secList : VolumesInRange(secList[s])
    /\ \E msg \in SymbolMsgs :
          LET r == onMarketDataIncrementalRefresh(V, msg)
          IN /\ SetV(r.v)
             /\ last' = [op |-> "onMarketDataIncrementalRefresh", err |-> r.reject,
                         msg |-> msg]
    /\ UNCHANGED <<sessionVars, bridgeVars, subscriptionVars, threadVars, commandVars>>

SpecSecurities == InitSecurities /\ [][FromAppSymbolRefresh]_vars

\* the order a book holds under an id, if any
StoredOrder(o, id) ==
    IF getOrder(o, id) = 0 THEN <<>> ELSE <<o.orders[getOrder(o, id)]>>

\* C40: an incremental refresh adds, changes or deletes an order in the book of a
\* security only for an entry that names this security as its Symbol and this order
\* as its OrderID.
C40_EntryAppliedToOwnSecurity ==
    [][\A s \in Securities : \A id \in OrderIds :
          StoredOrder(secList[s], id) # StoredOrder(secList'[s], id)
          => \E i \in 1..Len(last'.msg.NoMDEntries[1]) :
                /\ last'.msg.NoMDEntries[1][i].Symbol = s
                /\ last'.msg.NoMDEntries[1][i].OrderID = id]_vars

====
